---- MODULE Spec2Model ----
(***************************************************************************)
(* Disneyland Adventure: the world/location model (Area grids, occupant    *)
(* bookkeeping, connections), the shop ledger with theft detection, and    *)
(* the per-turn NPC update, as state machines translated from the Python   *)
(* sources area.py, npc.py, player.py, item.py and game_manager.py.        *)
(*                                                                         *)
(* Conventions.  Python's None is the string "None" for object references  *)
(* and the empty tuple for an absent Coordinates.  Coordinates are pairs   *)
(* <<x, y>>: the z component is 0 in every call the sources make (grid_z   *)
(* defaults to 0 and is never passed).  Items are the integers             *)
(* 1..MaxItems, NPC objects are 101 and 102.  random.random() and          *)
(* random.randint() are inputs of the actions, drawn with \E.              *)
(***************************************************************************)
EXTENDS Integers, Sequences, FiniteSets, TLC

\* ------------------------------------------------------------ bounds
\* Every Area of the model is GridW cells wide and GridL cells long.
GridW == 2
GridL == 1
\* Size of the pool of Item instances ItemManager.create_instance can hand out.
MaxItems == 2
\* Cap on the suspicion rating (in suspicion points) kept by the guards.
MaxSuspicion == 30
\* Cap on the number of Area.add_connection calls of the connection machine.
MaxConnectCalls == 3
\* Cap on the origin offsets AreaGroup.add_area is called with.
MaxOffset == 1
\* The player is constructed with start_money in 0..MaxMoney.
MaxMoney == 3
\* Quantity a finite sell-stock entry is created with.
StockQty == 1
\* update_world is called at most this many times
MaxTurns == 3
\* the largest item value a fence is asked to price
MaxItemValue == 20

\* ------------------------------------------------------------ program constants
\* player.py:396  suspicion added per unpaid item when leaving the shop
TheftSuspicionPerItem == 10
\* player.py:422  flat suspicion added when a Cast Member catches the player
CaughtSuspicion == 20
\* player.py:273  suspicion added when an item is taken from a shop's stock
TakeSuspicion == 5
\* player.py:306  suspicion removed when a taken item is paid for
PaySuspicionReduction == 5
\* player.py:323  suspicion removed by a normal purchase
BuySuspicionReduction == 1
\* npc.py:76  random.randint(2, 5) after an attempted move
MoveCooldownMin == 2
MoveCooldownMax == 5
\* npc.py:97,100  random.randint(3, 6) after a signature roll
SignatureCooldownMin == 3
SignatureCooldownMax == 6
\* npc.py:74,95  radius within which the player sees an NPC's message
VisibleRadius == 10
\* npc.py:145  radius of the ShadyCharacter's greeting
GreetingRadius == 5

None == "None"
\* An empty dict.
EmptyMap == <<>>
NoCoords == <<>>

Areas == {"land", "shop", "bazaar", "promenade"}
\* AreaManager.areas: the Areas registered with add_area, which the machines travel between.
RegisteredAreas == {"land", "shop", "bazaar"}
ItemIds == 1..MaxItems
NPCs == {101, 102}
Occupants == ItemIds \cup NPCs
ClassNames == {"NPC", "ParkCharacter", "Guest", "CastMember", "ShadyCharacter"}

IsItem(obj) == obj \in ItemIds

\* Area.__init__: the grid bounds, the parent and the shop flag of each Area.
grid_width(a) == IF a = "promenade" THEN GridW + VisibleRadius ELSE GridW
grid_length(a) == GridL
parent_area(a) == IF a = "shop" THEN "land" ELSE None
is_shop(a) == a \in {"shop", "bazaar"}

\* ------------------------------------------------------------ sequences as Python lists
InList(x, s) == \E k \in 1..Len(s) : s[k] = x

RECURSIVE ListRemove(_, _)
\* list.remove(x): drops the first occurrence of x.
ListRemove(s, x) ==
    IF s = <<>> THEN <<>>
    ELSE IF Head(s) = x THEN Tail(s)
    ELSE <<Head(s)>> \o ListRemove(Tail(s), x)

AppendIfAbsent(s, x) == IF InList(x, s) THEN s ELSE Append(s, x)

Max2(a, b) == IF a > b THEN a ELSE b
Min2(a, b) == IF a < b THEN a ELSE b

\* ------------------------------------------------------------ state
VARIABLES
    area_origin_coords,   \* Area.area_origin_coords: Area -> <<x, y>>
    connections,          \* Area.connections: Area -> (label -> Area), keyed by the labels present
    grid_objects,         \* Area.grid_objects: Area -> (cell -> list of occupants), keyed by the cells present
    items,                \* Area.items: Area -> list of Items
    npcs,                 \* Area.npcs: Area -> list of NPCs
    portals,              \* Area.portals: Area -> (cell -> [target_area, target_gx, target_gy])
    coordinates,          \* obj.coordinates of every Item and NPC (NoCoords: None)
    location,             \* NPC.location: NPC -> Area or None
    class_name,           \* obj.__class__.__name__ of every NPC object
    action_cooldown,      \* NPC.action_cooldown
    world_items,          \* ItemManager.world_items: the Item instances created so far
    item_name,            \* Item.name (lower-cased key) of every created instance
    is_unpaid,            \* Item.is_unpaid
    unpaid_from_shop_id,  \* Item.unpaid_from_shop_id (an Area or None)
    shop_sells_stock,     \* Shop.shop_sells_stock: Area -> (item key -> [price, stock, unbounded])
    inventory,            \* Player.inventory
    current_area,         \* Player.current_area
    player_coordinates,   \* Player.coordinates
    money,                \* Player.money
    suspicion_rating,     \* Player.suspicion_rating
    layout,               \* AreaGroup.layout / AreaGroup.areas: Area -> the relative_position it was added with
    detection_draw,       \* the random.random() < detection_chance outcomes offered to the last theft check
    connect_calls,        \* number of Area.add_connection calls made by the connection machine
    shop_buys_stock,      \* per Shop: item name -> [buy_price, current_stock, desired_stock]
    game_turn,            \* GameManager.game_turn
    running,              \* GameManager.running
    npc_registry,         \* NPCManager.npcs: the registered NPC objects, in insertion order
    suspicion_halves,     \* the half point of Player.suspicion_rating: the rating is suspicion_rating + suspicion_halves / 2
    probe,                \* the arguments and result kept of the last call under observation
    out                   \* what the last operation reported: its printed events / returned status

areaVars == <<area_origin_coords, connections, grid_objects, items, npcs, portals>>
objVars == <<coordinates, location, class_name, action_cooldown>>
itemVars == <<world_items, item_name, is_unpaid, unpaid_from_shop_id>>
shopVars == <<shop_sells_stock, shop_buys_stock>>
playerVars == <<inventory, current_area, player_coordinates, money, suspicion_rating>>
auxVars == <<layout, detection_draw, connect_calls, out>>
turnVars == <<game_turn, running, npc_registry, suspicion_halves>>
vars == <<areaVars, objVars, itemVars, shopVars, playerVars, auxVars, turnVars, probe>>

\* ------------------------------------------------------------ Area geometry
\* Area.is_valid_grid_position
is_valid_grid_position(a, grid_x, grid_y) ==
    0 <= grid_x /\ grid_x < grid_width(a) /\ 0 <= grid_y /\ grid_y < grid_length(a)

\* Area.get_global_coordinates, for an Area whose origin is `origin`
GlobalOf(origin, grid_x, grid_y) == <<origin[1] + grid_x, origin[2] + grid_y>>

\* Coordinates.z: 0 in every Coordinates the program builds (area.py:20, 86); the
\* coordinates of the model keep x and y.
CoordZ(c) == 0

\* The conversion with the two axes exchanged.
RelativeOfExchanged(origin, global_coords) ==
    <<global_coords[2] - origin[2], global_coords[1] - origin[1], CoordZ(global_coords) - CoordZ(origin)>>

\* Area.get_relative_coordinates, for an Area whose origin is `origin`: an (x, y, z) tuple
RelativeOf(origin, global_coords) ==
    <<global_coords[1] - origin[1], global_coords[2] - origin[2], CoordZ(global_coords) - CoordZ(origin)>>

get_global_coordinates(a, grid_x, grid_y) == GlobalOf(area_origin_coords[a], grid_x, grid_y)
get_relative_coordinates(a, global_coords) == RelativeOf(area_origin_coords[a], global_coords)

\* Area.get_objects_at_grid_cell on a grid_objects map g
ObjectsAt(g, pos) == IF pos \in DOMAIN g THEN g[pos] ELSE <<>>

\* The cells of Area a under which obj is listed in a grid_objects map g.
CellsOf(g, obj) == {pos \in DOMAIN g : InList(obj, g[pos])}

\* ------------------------------------------------------------ placement bookkeeping
\* The placement operators work on a record w of the fields they touch:
\* grid_objects, items, npcs, coordinates, location.
World ==
    [grid_objects |-> grid_objects, items |-> items, npcs |-> npcs,
     coordinates |-> coordinates, location |-> location]

\* The type test of add_object_to_grid / remove_object_from_grid for the npcs list:
\* obj.__class__.__name__ == "NPC".
IsNpcClass(obj) == obj \in NPCs /\ class_name[obj] = "NPC"

\* Area.add_object_to_grid(obj, grid_x, grid_y) on Area a
\* A placement that does not test the cell against the bounds.
add_object_unchecked(w, a, obj, grid_x, grid_y) ==
    LET pos == <<grid_x, grid_y>>
        g == w.grid_objects[a]
        g2 == [p \in DOMAIN g \cup {pos} |->
                  IF p = pos THEN AppendIfAbsent(ObjectsAt(g, pos), obj) ELSE g[p]]
    IN [w EXCEPT !.coordinates[obj] = get_global_coordinates(a, grid_x, grid_y),
                 !.grid_objects[a] = g2]

add_object_to_grid(w, a, obj, grid_x, grid_y) ==
    IF ~is_valid_grid_position(a, grid_x, grid_y) THEN w
    ELSE LET pos == <<grid_x, grid_y>>
             g == w.grid_objects[a]
             g2 == [p \in DOMAIN g \cup {pos} |->
                       IF p = pos THEN AppendIfAbsent(ObjectsAt(g, pos), obj) ELSE g[p]]
             asItem == IsItem(obj) /\ ~InList(obj, w.items[a])
             asNpc == ~asItem /\ ~IsItem(obj) /\ IsNpcClass(obj) /\ ~InList(obj, w.npcs[a])
         IN [w EXCEPT !.coordinates[obj] = get_global_coordinates(a, grid_x, grid_y),
                      !.grid_objects[a] = g2,
                      !.items[a] = IF asItem THEN Append(@, obj) ELSE @,
                      !.npcs[a] = IF asNpc THEN Append(@, obj) ELSE @,
                      !.location = IF asNpc THEN [w.location EXCEPT ![obj] = a] ELSE @]

\* A removal that keeps the cell's entry when its list becomes empty.
remove_object_keeping_entry(w, a, obj, grid_x, grid_y) ==
    LET pos == <<grid_x, grid_y>>
        g == w.grid_objects[a]
        hit == pos \in DOMAIN g /\ InList(obj, g[pos])
    IN [w EXCEPT !.grid_objects[a] = IF hit THEN [g EXCEPT ![pos] = ListRemove(g[pos], obj)] ELSE g,
                 !.items[a] = IF IsItem(obj) /\ InList(obj, @) THEN ListRemove(@, obj) ELSE @,
                 !.npcs[a] = IF ~IsItem(obj) /\ IsNpcClass(obj) /\ InList(obj, @)
                             THEN ListRemove(@, obj) ELSE @]

\* A removal that takes the object out of its cell and leaves the Area's lists alone.
remove_object_from_cell_only(w, a, obj, grid_x, grid_y) ==
    LET pos == <<grid_x, grid_y>>
        g == w.grid_objects[a]
        hit == pos \in DOMAIN g /\ InList(obj, g[pos])
        left == IF hit THEN ListRemove(g[pos], obj) ELSE <<>>
    IN [w EXCEPT !.grid_objects[a] = IF ~hit THEN g
                                     ELSE IF left = <<>> THEN [p \in DOMAIN g \ {pos} |-> g[p]]
                                     ELSE [g EXCEPT ![pos] = left]]

\* Area.remove_object_from_grid(obj, grid_x, grid_y) on Area a
remove_object_from_grid(w, a, obj, grid_x, grid_y) ==
    LET pos == <<grid_x, grid_y>>
        g == w.grid_objects[a]
        hit == pos \in DOMAIN g /\ InList(obj, g[pos])
        left == IF hit THEN ListRemove(g[pos], obj) ELSE <<>>
        g2 == IF ~hit THEN g
              ELSE IF left = <<>> THEN [p \in DOMAIN g \ {pos} |-> g[p]]
              ELSE [g EXCEPT ![pos] = left]
    IN [w EXCEPT !.grid_objects[a] = g2,
                 !.items[a] = IF IsItem(obj) /\ InList(obj, @) THEN ListRemove(@, obj) ELSE @,
                 !.npcs[a] = IF ~IsItem(obj) /\ IsNpcClass(obj) /\ InList(obj, @)
                             THEN ListRemove(@, obj) ELSE @]

\* ------------------------------------------------------------ NPC placement
\* An optional grid argument: <<>> is None, <<x>> is the integer x.
OptArgsX == {<<>>} \cup {<<x>> : x \in -1..GridW}
OptArgsY == {<<>>} \cup {<<y>> : y \in -1..GridL}

\* A default of column 0 in place of the centre column.
ResolveXFromEdge(a, grid_x) ==
    LET x == IF grid_x = <<>> THEN 0 ELSE grid_x[1]
    IN Max2(0, Min2(x, grid_width(a) - 1))

\* A default with no clamp after it.
ResolveXUnclamped(a, grid_x) == IF grid_x = <<>> THEN grid_width(a) \div 2 ELSE grid_x[1]

\* The default-and-clamp of set_location / set_current_area (npc.py:26-30, player.py:25-29).
ResolveX(a, grid_x) ==
    LET x == IF grid_x = <<>> THEN grid_width(a) \div 2 ELSE grid_x[1]
    IN Max2(0, Min2(x, grid_width(a) - 1))
ResolveY(a, grid_y) ==
    LET y == IF grid_y = <<>> THEN grid_length(a) \div 2 ELSE grid_y[1]
    IN Max2(0, Min2(y, grid_length(a) - 1))

\* NPC.get_grid_position, read from the record w (location is not None)
NpcGridPosition(w, n) ==
    LET rel_coords == get_relative_coordinates(w.location[n], w.coordinates[n])
    IN <<rel_coords[1], rel_coords[2]>>

\* NPC.set_location(area, grid_x, grid_y)
set_location(w, n, area, grid_x, grid_y) ==
    LET w1 == IF w.location[n] # None /\ w.location[n] # area
              THEN LET old == NpcGridPosition(w, n)
                   IN remove_object_from_grid(w, w.location[n], n, old[1], old[2])
              ELSE w
        w2 == [w1 EXCEPT !.location[n] = area]
    IN IF area # None
       THEN add_object_to_grid(w2, area, n, ResolveX(area, grid_x), ResolveY(area, grid_y))
       ELSE [w2 EXCEPT !.coordinates[n] = <<-1, -1>>]

\* A move that asks only whether the NPC is in an Area, not whether the cell exists.
MoveSucceedsOffGrid(w, n, dx, dy) == w.location[n] # None

\* NPC.move_on_grid(dx, dy): the record after the call (unchanged when it returns False)
MoveSucceeds(w, n, dx, dy) ==
    /\ w.location[n] # None
    /\ LET cur == NpcGridPosition(w, n)
       IN is_valid_grid_position(w.location[n], cur[1] + dx, cur[2] + dy)

\* A move that lists the NPC in the new cell without taking it out of the old one.
move_on_grid_leaving_copy(w, n, dx, dy) ==
    IF ~MoveSucceeds(w, n, dx, dy) THEN w
    ELSE LET cur == NpcGridPosition(w, n)
         IN add_object_to_grid(w, w.location[n], n, cur[1] + dx, cur[2] + dy)

move_on_grid(w, n, dx, dy) ==
    IF ~MoveSucceeds(w, n, dx, dy) THEN w
    ELSE LET cur == NpcGridPosition(w, n)
             a == w.location[n]
         IN add_object_to_grid(remove_object_from_grid(w, a, n, cur[1], cur[2]),
                               a, n, cur[1] + dx, cur[2] + dy)

PutWorld(w) ==
    /\ grid_objects' = w.grid_objects
    /\ items' = w.items
    /\ npcs' = w.npcs
    /\ coordinates' = w.coordinates
    /\ location' = w.location

\* ------------------------------------------------------------ Player: transitions and the theft check
\* The player operators work on a record p of the Player fields they touch,
\* with the events printed so far in p.out.
PlayerRec ==
    [inventory |-> inventory, current_area |-> current_area,
     player_coordinates |-> player_coordinates, suspicion_rating |-> suspicion_rating,
     out |-> <<>>]

\* Player.get_grid_position (current_area is not None)
PlayerGridPosition ==
    LET rel_coords == get_relative_coordinates(current_area, player_coordinates)
    IN <<rel_coords[1], rel_coords[2]>>

\* A check that counts everything the player carries.
SelectHeld(inv, shop_left) == inv

RECURSIVE SelectUnpaid(_, _)
\* [item for item in self.inventory if item.is_unpaid and item.unpaid_from_shop_id == shop_left.id]
SelectUnpaid(inv, shop_left) ==
    IF inv = <<>> THEN <<>>
    ELSE LET rest == SelectUnpaid(Tail(inv), shop_left)
         IN IF is_unpaid[Head(inv)] /\ unpaid_from_shop_id[Head(inv)] = shop_left
            THEN <<Head(inv)>> \o rest ELSE rest

RECURSIVE SelectCastMembers(_)
\* [npc for npc in shop_left.npcs if npc.__class__.__name__ == "CastMember"]
SelectCastMembers(lst) ==
    IF lst = <<>> THEN <<>>
    ELSE LET rest == SelectCastMembers(Tail(lst))
         IN IF class_name[Head(lst)] = "CastMember" THEN <<Head(lst)>> \o rest ELSE rest

RECURSIVE RemoveAll(_, _)
\* for item_to_confiscate in unpaid: self.inventory.remove(item_to_confiscate)
RemoveAll(inv, gone) ==
    IF gone = <<>> THEN inv ELSE RemoveAll(ListRemove(inv, Head(gone)), Tail(gone))

\* A flat charge, whatever the number of unpaid items.
LeaveSuspicionFlat(n) == TheftSuspicionPerItem

\* The suspicion added on attempting to leave with n unpaid items (player.py:396).
LeaveSuspicion(n) == TheftSuspicionPerItem * n

\* A theft check that takes the unpaid goods whether or not anybody notices.
check_for_theft_confiscating(p, shop_left, draw) ==
    IF ~is_shop(shop_left) THEN p
    ELSE LET unpaid == SelectUnpaid(p.inventory, shop_left)
         IN IF unpaid = <<>> THEN p
            ELSE [p EXCEPT !.out = Append(@, "attempt_leave"),
                           !.suspicion_rating = @ + LeaveSuspicion(Len(unpaid)),
                           !.inventory = RemoveAll(@, unpaid)]

\* Player.check_for_theft(shop_left).  With Cast Members in shop_left.npcs the
\* statement at player.py:405 unpacks the 3-tuple of get_relative_coordinates
\* (area.py:91-95) into two names and raises ValueError, before any draw.
check_for_theft(p, shop_left, draw) ==
    IF ~is_shop(shop_left) THEN p
    ELSE LET unpaid == SelectUnpaid(p.inventory, shop_left)
             cast == SelectCastMembers(npcs[shop_left])
         IN IF unpaid = <<>> THEN p
            ELSE LET p1 == [p EXCEPT !.out = Append(@, "attempt_leave"),
                                     !.suspicion_rating = @ + LeaveSuspicion(Len(unpaid))]
                 IN IF cast = <<>> THEN [p1 EXCEPT !.out = Append(@, "slipped_out")]
                    ELSE [p1 EXCEPT !.out = Append(@, "ValueError")]

\* The test without the exemption of the parent Area.
LeavingShopAnywhere(old, area) ==
    /\ old # None
    /\ is_shop(old)
    /\ area # old

\* The test of set_current_area that sends the player to the theft check (player.py:36-37).
LeavingShop(old, area) ==
    /\ old # None
    /\ is_shop(old)
    /\ area # old
    /\ area # parent_area(old)

\* An entry that ignores the cell it is given and always takes the centre.
set_current_area_at_centre(p, area, grid_x, grid_y, draw) ==
    LET old == p.current_area
    IN IF area = None THEN [p EXCEPT !.out = Append(@, "null_area")]
       ELSE LET p1 == [p EXCEPT !.current_area = area,
                                !.player_coordinates =
                                    get_global_coordinates(area, ResolveX(area, <<>>), ResolveY(area, <<>>))]
                p2 == IF LeavingShop(old, area) THEN check_for_theft(p1, old, draw) ELSE p1
            IN IF InList("ValueError", p2.out) THEN p2
               ELSE [p2 EXCEPT !.out = Append(@, "now_in")]

\* An entry that does not put the old Area back when the new one is null.
set_current_area_no_revert(p, area, grid_x, grid_y, draw) ==
    LET old == p.current_area
    IN IF area = None THEN [p EXCEPT !.current_area = None, !.out = Append(@, "null_area")]
       ELSE LET p1 == [p EXCEPT !.current_area = area,
                                !.player_coordinates =
                                    get_global_coordinates(area, ResolveX(area, grid_x), ResolveY(area, grid_y))]
                p2 == IF LeavingShop(old, area) THEN check_for_theft(p1, old, draw) ELSE p1
            IN IF InList("ValueError", p2.out) THEN p2
               ELSE [p2 EXCEPT !.out = Append(@, "now_in")]

\* Player.set_current_area(area, grid_x, grid_y)
set_current_area(p, area, grid_x, grid_y, draw) ==
    LET old == p.current_area
    IN IF area = None THEN [p EXCEPT !.out = Append(@, "null_area")]
       ELSE LET p1 == [p EXCEPT !.current_area = area,
                                !.player_coordinates =
                                    get_global_coordinates(area, ResolveX(area, grid_x), ResolveY(area, grid_y))]
                p2 == IF LeavingShop(old, area) THEN check_for_theft(p1, old, draw) ELSE p1
            IN IF InList("ValueError", p2.out) THEN p2
               ELSE [p2 EXCEPT !.out = Append(@, "now_in")]

PutPlayer(p) ==
    /\ inventory' = p.inventory
    /\ current_area' = p.current_area
    /\ player_coordinates' = p.player_coordinates
    /\ suspicion_rating' = p.suspicion_rating
    /\ out' = p.out

\* An uncaught exception ends the session (game_manager.py:278-299 has no handler).
Crashed == InList("ValueError", out)

\* One outcome per NPC object; only a CastMember's is ever asked for.
Draws == {d \in [NPCs -> BOOLEAN] : \A n \in NPCs : d[n] => class_name[n] = "CastMember"}

\* Player.teleport(target_area, grid_x, grid_y)
Teleport(area, grid_x, grid_y, draw) ==
    /\ ~Crashed
    /\ LET p == IF area = None THEN [PlayerRec EXCEPT !.out = <<"teleport_target_not_found">>]
                ELSE set_current_area(PlayerRec, area, grid_x, grid_y, draw)
       IN /\ p.suspicion_rating <= MaxSuspicion
          /\ PutPlayer(p)
    /\ detection_draw' = IF area # None /\ LeavingShop(current_area, area) THEN draw ELSE detection_draw
    /\ UNCHANGED <<areaVars, objVars, itemVars, shopVars, money, layout, connect_calls, turnVars, probe>>

\* ------------------------------------------------------------ Player.move
Directions == {"north", "south", "east", "west"}
Labels == Directions \cup {"up", "down", "enter shop", "exit to land"}

\* The unit offset of a compass direction (player.py:153-156).
StepOf(direction) ==
    CASE direction = "north" -> <<0, 1>>
      [] direction = "south" -> <<0, -1>>
      [] direction = "east" -> <<1, 0>>
      [] direction = "west" -> <<-1, 0>>

\* A move that steps to the new cell whether or not it lies inside the grid.
move_through_walls(p, direction, draw) ==
    LET cur == p.current_area
        conn == connections[cur]
    IN IF direction \notin Directions
       THEN IF direction \in DOMAIN conn
            THEN set_current_area(p, conn[direction], <<>>, <<>>, draw)
            ELSE [p EXCEPT !.out = Append(@, "unknown_direction")]
       ELSE LET pos == get_relative_coordinates(cur, p.player_coordinates)
                new == <<pos[1] + StepOf(direction)[1], pos[2] + StepOf(direction)[2]>>
                p1 == [p EXCEPT !.player_coordinates = get_global_coordinates(cur, new[1], new[2]),
                                !.out = Append(@, "you_move")]
            IN IF new \in DOMAIN portals[cur]
               THEN set_current_area(p1, portals[cur][new].target_area,
                                     portals[cur][new].target_gx, portals[cur][new].target_gy, draw)
               ELSE IF ~is_valid_grid_position(cur, new[1], new[2]) /\ direction \in DOMAIN conn
                    THEN set_current_area([p EXCEPT !.out = Append(@, "you_head")],
                                          conn[direction], <<>>, <<>>, draw)
                    ELSE p1

\* A move that takes a connection labelled with the direction before it tries the step.
move_connection_first(p, direction, draw) ==
    LET cur == p.current_area
        conn == connections[cur]
    IN IF direction \in DOMAIN conn
       THEN set_current_area([p EXCEPT !.out = Append(@, "you_head")], conn[direction], <<>>, <<>>, draw)
       ELSE IF direction \notin Directions
       THEN [p EXCEPT !.out = Append(@, "unknown_direction")]
       ELSE LET pos == get_relative_coordinates(cur, p.player_coordinates)
                new == <<pos[1] + StepOf(direction)[1], pos[2] + StepOf(direction)[2]>>
            IN IF is_valid_grid_position(cur, new[1], new[2])
               THEN LET p1 == [p EXCEPT !.player_coordinates = get_global_coordinates(cur, new[1], new[2]),
                                        !.out = Append(@, "you_move")]
                    IN IF new \in DOMAIN portals[cur]
                       THEN set_current_area(p1, portals[cur][new].target_area,
                                             portals[cur][new].target_gx, portals[cur][new].target_gy, draw)
                       ELSE p1
               ELSE [p EXCEPT !.out = Append(@, "cannot_go")]

\* Player.move(direction), current_area not None: the player record after the call
move(p, direction, draw) ==
    LET cur == p.current_area
        conn == connections[cur]
    IN IF direction \notin Directions
       THEN IF direction \in DOMAIN conn
            THEN set_current_area(p, conn[direction], <<>>, <<>>, draw)
            ELSE [p EXCEPT !.out = Append(@, "unknown_direction")]
       ELSE LET pos == get_relative_coordinates(cur, p.player_coordinates)
                new == <<pos[1] + StepOf(direction)[1], pos[2] + StepOf(direction)[2]>>
            IN IF is_valid_grid_position(cur, new[1], new[2])
               THEN LET p1 == [p EXCEPT !.player_coordinates = get_global_coordinates(cur, new[1], new[2]),
                                        !.out = Append(@, "you_move")]
                    IN IF new \in DOMAIN portals[cur]
                       THEN set_current_area(p1, portals[cur][new].target_area,
                                             portals[cur][new].target_gx, portals[cur][new].target_gy, draw)
                       ELSE p1
               ELSE IF direction \in DOMAIN conn
                    THEN set_current_area([p EXCEPT !.out = Append(@, "you_head")],
                                          conn[direction], <<>>, <<>>, draw)
                    ELSE [p EXCEPT !.out = Append(@, "cannot_go")]

\* The Area a call of move(direction) hands to set_current_area, or None when it makes no such call.
MoveTarget(direction) ==
    LET cur == current_area
        conn == connections[cur]
    IN IF direction \notin Directions
       THEN IF direction \in DOMAIN conn THEN conn[direction] ELSE None
       ELSE LET pos == PlayerGridPosition
                new == <<pos[1] + StepOf(direction)[1], pos[2] + StepOf(direction)[2]>>
            IN IF is_valid_grid_position(cur, new[1], new[2])
               THEN IF new \in DOMAIN portals[cur] THEN portals[cur][new].target_area ELSE None
               ELSE IF direction \in DOMAIN conn THEN conn[direction] ELSE None

Move(direction, draw) ==
    /\ ~Crashed
    /\ current_area # None
    /\ LET p == move(PlayerRec, direction, draw)
       IN /\ p.suspicion_rating <= MaxSuspicion
          /\ PutPlayer(p)
    /\ detection_draw' = IF MoveTarget(direction) # None /\ LeavingShop(current_area, MoveTarget(direction))
                         THEN draw ELSE detection_draw
    /\ UNCHANGED <<areaVars, objVars, itemVars, shopVars, money, layout, connect_calls, turnVars, probe>>

\* ------------------------------------------------------------ items and the shop ledger
\* Item names, lower-cased as the dictionaries key them.
Names == {"ears", "churro", "map"}
\* ItemManager.item_prototypes: the names create_instance can clone (game_manager.py:56-61).
item_prototypes == {"ears", "churro", "map"}
\* Item.value of each prototype (game_manager.py:56-60).
item_value(name) == IF name = "ears" THEN 15 ELSE IF name = "churro" THEN 5 ELSE 1

\* ItemManager.create_instance: the fresh instance, or None when the name has no prototype.
FreshItem == Cardinality(world_items) + 1
CanCreate(name) == name \in item_prototypes
PoolLeft == FreshItem \in ItemIds

RECURSIVE FirstNamed(_, _)
\* The first Item of a list whose name matches the query, or 0 when there is none.
FirstNamed(lst, name) ==
    IF lst = <<>> THEN 0
    ELSE IF IsItem(Head(lst)) /\ item_name[Head(lst)] = name THEN Head(lst)
    ELSE FirstNamed(Tail(lst), name)

RECURSIVE FirstUnpaidNamed(_, _, _)
\* buy_item's scan (player.py:295-298): the first held item of that name unpaid from this shop, or 0.
FirstUnpaidNamed(inv, name, shop) ==
    IF inv = <<>> THEN 0
    ELSE IF item_name[Head(inv)] = name /\ is_unpaid[Head(inv)] /\ unpaid_from_shop_id[Head(inv)] = shop
         THEN Head(inv)
    ELSE FirstUnpaidNamed(Tail(inv), name, shop)

\* The rating counted in half points, the unit of the passive decay (0.5, player.py:219).
SuspicionScale == 2
SuspicionHalfPoints == SuspicionScale * suspicion_rating + suspicion_halves

\* The rating lowered without the floor at 0.
reduce_suspicion_unfloored(s, amount) == IF s > 0 THEN s - amount ELSE s

\* Player.reduce_suspicion_from_activity(amount), rating and amount in one unit
reduce_suspicion_from_activity(s, amount) == IF s > 0 THEN Max2(0, s - amount) ELSE s

\* The rating after reduce_suspicion_from_activity(amount), amount in points, in half points.
ReducedSuspicion(amount) == reduce_suspicion_from_activity(SuspicionHalfPoints, SuspicionScale * amount)

\* self.suspicion_rating = v, v in half points
SetSuspicion(v) ==
    /\ suspicion_rating' = v \div SuspicionScale
    /\ suspicion_halves' = v % SuspicionScale

\* The passive decay of one turn, 0.5, in half points (player.py:219).
DecayHalfPoints == 1
\* Player.update_suspicion_decay, on the rating in half points
update_suspicion_decay(s) == reduce_suspicion_from_activity(s, DecayHalfPoints)

\* Ride.suspicion_reduction_on_ride: the default (area.py:395) and the Jungle
\* Cruise's (game_manager.py:88).
RideSuspicionReduction == 5
JungleCruiseSuspicionReduction == 7
RideReductions == {RideSuspicionReduction, JungleCruiseSuspicionReduction}

\* ride.experience_ride(player) of an operational Ride with the given reduction (area.py:399-407)
Ride(reduction) ==
    /\ ~Crashed
    /\ SetSuspicion(ReducedSuspicion(reduction))
    /\ out' = <<"ride">>
    /\ UNCHANGED <<areaVars, objVars, itemVars, shopVars, inventory, current_area, player_coordinates,
                   money, layout, detection_draw, connect_calls, game_turn, running, npc_registry,
                   probe>>

\* ------------------------------------------------------------ Player.sell_item
\* The Areas of class FenceShop, and FenceShop.fence_cut in percent (area.py:478).
FenceShops == {"bazaar"}
FenceCutPercent == 25
FenceSuspicionReduction == 2
SellStolenSuspicion == 15

\* Python's round(n / d) for n >= 0, d > 0: to the nearest integer, a tie to the even one.
RoundHalfEven(n, d) ==
    LET q == n \div d
        r == n % d
    IN IF 2 * r < d THEN q
       ELSE IF 2 * r > d THEN q + 1
       ELSE IF q % 2 = 0 THEN q ELSE q + 1

\* A rounding that drops the fraction.
RoundDown(n, d) == n \div d

\* Python's round(n / d) for n >= 0, d > 0: to the nearest integer, a tie to the even one.
round(n, d) == RoundHalfEven(n, d)

\* round(item_value * fence_cut) for a fence_cut of cut_percent hundredths
\* (area.py:508; the listing computes the same, area.py:495)
fence_price(value, cut_percent) == round(value * cut_percent, 100)

\* A fence that pays the full value.
get_fence_price_uncut(v) == v

\* FenceShop.get_fence_price(item_value): round(item_value * fence_cut) (area.py:507-508)
get_fence_price(v) == fence_price(v, FenceCutPercent)

\* A till that keeps buying once the wanted number is reached.
ShopAcceptsAtCapacity(buys, name) ==
    /\ name \in DOMAIN buys
    /\ buys[name].current_stock <= buys[name].desired_stock

\* sell_item's two tests on the Shop's buy list (player.py:366-372): the item key
\* is solicited and fewer have been bought than are wanted.
ShopAccepts(buys, name) ==
    /\ name \in DOMAIN buys
    /\ buys[name].current_stock < buys[name].desired_stock

\* Player.sell_item(item_name_query) (player.py:329-380)
SellItem(name) ==
    /\ ~Crashed
    /\ LET held == IF current_area = None THEN 0 ELSE FirstNamed(inventory, name)
       IN IF current_area = None
          THEN /\ out' = <<"not_a_place_to_sell">>
               /\ UNCHANGED <<itemVars, inventory, money, suspicion_rating, suspicion_halves>>
          ELSE IF held = 0
          THEN /\ out' = <<"nothing_to_sell">>
               /\ UNCHANGED <<itemVars, inventory, money, suspicion_rating, suspicion_halves>>
          ELSE IF current_area \in FenceShops
          THEN IF ~is_unpaid[held]
               THEN /\ out' = <<"fence_refuses">>
                    /\ UNCHANGED <<itemVars, inventory, money, suspicion_rating, suspicion_halves>>
               ELSE /\ inventory' = ListRemove(inventory, held)
                    /\ money' = money + get_fence_price(item_value(item_name[held]))
                    /\ is_unpaid' = [is_unpaid EXCEPT ![held] = FALSE]
                    /\ unpaid_from_shop_id' = [unpaid_from_shop_id EXCEPT ![held] = None]
                    /\ SetSuspicion(ReducedSuspicion(FenceSuspicionReduction))
                    /\ out' = <<"fenced">>
                    /\ UNCHANGED <<world_items, item_name>>
          ELSE IF is_shop(current_area)
          THEN IF is_unpaid[held]
               THEN /\ suspicion_rating + SellStolenSuspicion <= MaxSuspicion
                    /\ suspicion_rating' = suspicion_rating + SellStolenSuspicion
                    /\ out' = <<"suspicious_look">>
                    /\ UNCHANGED <<itemVars, inventory, money, suspicion_halves>>
               ELSE IF name \notin DOMAIN shop_buys_stock[current_area]
               THEN /\ out' = <<"not_buying">>
                    /\ UNCHANGED <<itemVars, inventory, money, suspicion_rating, suspicion_halves>>
               ELSE IF ~ShopAccepts(shop_buys_stock[current_area], name)
               THEN /\ out' = <<"has_enough">>
                    /\ UNCHANGED <<itemVars, inventory, money, suspicion_rating, suspicion_halves>>
               ELSE /\ inventory' = ListRemove(inventory, held)
                    /\ money' = money + shop_buys_stock[current_area][name].buy_price
                    /\ out' = <<"sold">>
                    /\ UNCHANGED <<itemVars, suspicion_rating, suspicion_halves>>
          ELSE /\ out' = <<"not_a_place_to_sell">>
               /\ UNCHANGED <<itemVars, inventory, money, suspicion_rating, suspicion_halves>>
    /\ shop_buys_stock' =
          IF current_area # None /\ current_area \notin FenceShops /\ is_shop(current_area)
             /\ FirstNamed(inventory, name) # 0 /\ ~is_unpaid[FirstNamed(inventory, name)]
             /\ ShopAccepts(shop_buys_stock[current_area], name)
          THEN [shop_buys_stock EXCEPT ![current_area][name].current_stock = @ + 1]
          ELSE shop_buys_stock
    /\ UNCHANGED <<areaVars, objVars, shop_sells_stock, current_area, player_coordinates,
                   layout, detection_draw, connect_calls, game_turn, running, npc_registry,
                   probe>>

\* The outcome when only a negative stock counts as sold out.
PurchaseOutcomeStockBelowZero(stock, name, player_money) ==
    IF name \notin DOMAIN stock THEN "not_found"
    ELSE IF stock[name].stock < 0 /\ ~stock[name].unbounded THEN "out_of_stock"
    ELSE IF player_money < stock[name].price THEN "cannot_afford"
    ELSE IF ~CanCreate(name) THEN "creation_failed"
    ELSE "success"

\* The outcome when the funds may fall one short of the price.
PurchaseOutcomeOneShort(stock, name, player_money) ==
    IF name \notin DOMAIN stock THEN "not_found"
    ELSE IF stock[name].stock <= 0 /\ ~stock[name].unbounded THEN "out_of_stock"
    ELSE IF player_money < stock[name].price - 1 THEN "cannot_afford"
    ELSE IF ~CanCreate(name) THEN "creation_failed"
    ELSE "success"

\* The outcome when the player's money is never looked at.
PurchaseOutcomeOnCredit(stock, name, player_money) ==
    IF name \notin DOMAIN stock THEN "not_found"
    ELSE IF stock[name].stock <= 0 /\ ~stock[name].unbounded THEN "out_of_stock"
    ELSE IF ~CanCreate(name) THEN "creation_failed"
    ELSE "success"

\* Shop.process_player_purchase(item_name_query, player_money, item_manager) on a
\* sell-stock map: the outcome and the map after the call.
PurchaseOutcome(stock, name, player_money) ==
    IF name \notin DOMAIN stock THEN "not_found"
    ELSE IF stock[name].stock <= 0 /\ ~stock[name].unbounded THEN "out_of_stock"
    ELSE IF player_money < stock[name].price THEN "cannot_afford"
    ELSE IF ~CanCreate(name) THEN "creation_failed"
    ELSE "success"
StockAfterPurchase(stock, name, player_money) ==
    IF PurchaseOutcome(stock, name, player_money) \in {"creation_failed", "success"}
       /\ ~stock[name].unbounded
    THEN [stock EXCEPT ![name].stock = @ - 1]
    ELSE stock

\* A shelf that can be taken from whatever the stock says.
shop_item_available_always(stock, name) == name \in DOMAIN stock

\* pick_up's test on the Shop's sell list (player.py:262-263): the item is listed
\* and its stock is above 0 (an unlimited stock is)
shop_item_available(stock, name) ==
    /\ name \in DOMAIN stock
    /\ (stock[name].unbounded \/ stock[name].stock > 0)

\* Player.pick_up(item_name_query, item_manager)
PickUp(name) ==
    /\ ~Crashed
    /\ current_area # None
    /\ LET pos == PlayerGridPosition
           loose == FirstNamed(ObjectsAt(grid_objects[current_area], pos), name)
           stock == shop_sells_stock[current_area]
       IN IF loose # 0
          THEN \* Case 1: a loose item at the player's cell
               /\ PutWorld([remove_object_from_grid(World, current_area, loose, pos[1], pos[2])
                               EXCEPT !.coordinates[loose] = NoCoords])
               /\ inventory' = Append(inventory, loose)
               /\ out' = <<"got">>
               /\ UNCHANGED <<itemVars, suspicion_rating>>
          ELSE IF is_shop(current_area) /\ shop_item_available(stock, name)
          THEN \* Case 2: taking from the shop's stock
               IF CanCreate(name)
               THEN /\ PoolLeft
                    /\ suspicion_rating + TakeSuspicion <= MaxSuspicion
                    /\ world_items' = world_items \cup {FreshItem}
                    /\ item_name' = [item_name EXCEPT ![FreshItem] = name]
                    /\ is_unpaid' = [is_unpaid EXCEPT ![FreshItem] = TRUE]
                    /\ unpaid_from_shop_id' = [unpaid_from_shop_id EXCEPT ![FreshItem] = current_area]
                    /\ inventory' = Append(inventory, FreshItem)
                    /\ suspicion_rating' = suspicion_rating + TakeSuspicion
                    /\ out' = <<"take">>
                    /\ UNCHANGED <<grid_objects, items, npcs, coordinates, location>>
               ELSE /\ out' = <<"create_error">>
                    /\ UNCHANGED <<grid_objects, items, npcs, coordinates, location,
                                   itemVars, inventory, suspicion_rating>>
          ELSE /\ out' = <<"not_here">>
               /\ UNCHANGED <<grid_objects, items, npcs, coordinates, location,
                              itemVars, inventory, suspicion_rating>>
    /\ UNCHANGED <<area_origin_coords, connections, portals, class_name, action_cooldown,
                   shopVars, current_area, player_coordinates, money, layout, detection_draw, connect_calls, turnVars, probe>>

\* Player.remove_item_from_inventory(item_name): drop at the player's cell
Drop(name) ==
    /\ ~Crashed
    /\ LET item_to_drop == FirstNamed(inventory, name)
       IN IF item_to_drop # 0
          THEN /\ inventory' = ListRemove(inventory, item_to_drop)
               /\ out' = <<"dropped">>
               /\ IF current_area # None
                  THEN PutWorld(add_object_to_grid(World, current_area, item_to_drop,
                                                   PlayerGridPosition[1], PlayerGridPosition[2]))
                  ELSE UNCHANGED <<grid_objects, items, npcs, coordinates, location>>
          ELSE /\ out' = <<"dont_have">>
               /\ UNCHANGED <<grid_objects, items, npcs, coordinates, location, inventory>>
    /\ UNCHANGED <<area_origin_coords, connections, portals, class_name, action_cooldown, itemVars,
                   shopVars, current_area, player_coordinates, money, suspicion_rating,
                   layout, detection_draw, connect_calls, turnVars, probe>>

\* Player.buy_item(item_name_query, item_manager)
BuyItem(name) ==
    /\ ~Crashed
    /\ IF current_area = None \/ ~is_shop(current_area)
       THEN /\ out' = <<"not_a_shop">>
            /\ UNCHANGED <<itemVars, shopVars, inventory, money, suspicion_rating, suspicion_halves, coordinates>>
       ELSE LET stock == shop_sells_stock[current_area]
                held == FirstUnpaidNamed(inventory, name, current_area)
                item_price == IF name \in DOMAIN stock THEN stock[name].price ELSE item_value(name)
                status == PurchaseOutcome(stock, name, money)
            IN IF held # 0
               THEN \* paying for an item taken earlier (player.py:295-314)
                    IF money >= item_price
                    THEN /\ money' = money - item_price
                         /\ is_unpaid' = [is_unpaid EXCEPT ![held] = FALSE]
                         /\ unpaid_from_shop_id' = [unpaid_from_shop_id EXCEPT ![held] = None]
                         /\ SetSuspicion(ReducedSuspicion(PaySuspicionReduction))
                         /\ out' = <<"paid">>
                         /\ UNCHANGED <<world_items, item_name, shopVars, inventory, coordinates>>
                    ELSE /\ out' = <<"cannot_pay">>
                         /\ UNCHANGED <<itemVars, shopVars, inventory, money, suspicion_rating, suspicion_halves, coordinates>>
               ELSE \* the normal purchase (player.py:317-327)
                    /\ status = "success" => PoolLeft
                    /\ shop_sells_stock' = [shop_sells_stock EXCEPT
                                               ![current_area] = StockAfterPurchase(stock, name, money)]
                    /\ shop_buys_stock' = shop_buys_stock
                    /\ out' = <<status, name>>
                    /\ IF status = "success"
                       THEN /\ world_items' = world_items \cup {FreshItem}
                            /\ item_name' = [item_name EXCEPT ![FreshItem] = name]
                            /\ money' = money - stock[name].price
                            /\ inventory' = Append(inventory, FreshItem)
                            /\ coordinates' = [coordinates EXCEPT ![FreshItem] = NoCoords]
                            /\ SetSuspicion(ReducedSuspicion(BuySuspicionReduction))
                            /\ UNCHANGED <<is_unpaid, unpaid_from_shop_id>>
                       ELSE UNCHANGED <<itemVars, inventory, money, suspicion_rating, suspicion_halves, coordinates>>
    /\ UNCHANGED <<areaVars, location, class_name, action_cooldown, current_area,
                   player_coordinates, layout, detection_draw, connect_calls, game_turn, running, npc_registry,
                   probe>>

\* ------------------------------------------------------------ connections
\* reverse_directions of Area.add_connection (area.py:46-50)
ReverseDirections == {"north", "south", "east", "west", "up", "down"}
reverse_directions(direction) ==
    CASE direction = "north" -> "south"
      [] direction = "south" -> "north"
      [] direction = "east" -> "west"
      [] direction = "west" -> "east"
      [] direction = "up" -> "down"
      [] direction = "down" -> "up"

\* str.lower(): of the labels and names used here only "North" and "Shop" have an
\* upper-case letter
lower(direction) ==
    IF direction = "North" THEN "north" ELSE IF direction = "Shop" THEN "shop" ELSE direction

\* dict[key] = value on a map keyed by the keys present
MapPut(m, key, value) == [k \in DOMAIN m \cup {key} |-> IF k = key THEN value ELSE m[k]]

\* The connection and its reverse written whether or not the reverse exists.
add_connection_overwriting(conns, a, direction, connected_area) ==
    IF connected_area \notin Areas THEN conns
    ELSE LET c1 == [conns EXCEPT ![a] = MapPut(@, lower(direction), connected_area)]
         IN IF lower(direction) \in ReverseDirections
            THEN [c1 EXCEPT ![connected_area] = MapPut(@, reverse_directions(lower(direction)), a)]
            ELSE c1

\* A reverse written for every label: "exit" stands in where the label has no opposite.
add_connection_label_reverse(conns, a, direction, connected_area) ==
    IF connected_area \notin Areas THEN conns
    ELSE LET c1 == [conns EXCEPT ![a] = MapPut(@, lower(direction), connected_area)]
             rev == IF lower(direction) \in ReverseDirections
                    THEN reverse_directions(lower(direction)) ELSE "exit"
         IN IF rev \notin DOMAIN c1[connected_area]
            THEN [c1 EXCEPT ![connected_area] = MapPut(@, rev, a)]
            ELSE c1

RECURSIVE add_connection(_, _, _, _)
\* Area.add_connection(direction, connected_area) on Area a, over the connections of all Areas
add_connection(conns, a, direction, connected_area) ==
    IF connected_area \notin Areas THEN conns
    ELSE LET c1 == [conns EXCEPT ![a] = MapPut(@, lower(direction), connected_area)]
         IN IF lower(direction) \in ReverseDirections
               /\ reverse_directions(lower(direction)) \notin DOMAIN c1[connected_area]
            THEN add_connection(c1, connected_area, reverse_directions(lower(direction)), a)
            ELSE c1

AddConnection(a, direction, connected_area) ==
    /\ connect_calls < MaxConnectCalls
    /\ connect_calls' = connect_calls + 1
    /\ connections' = add_connection(connections, a, direction, connected_area)
    /\ out' = <<a, direction, connected_area>>
    /\ UNCHANGED <<area_origin_coords, grid_objects, items, npcs, portals, objVars, itemVars,
                   shopVars, playerVars, layout, detection_draw, turnVars, probe>>

\* ------------------------------------------------------------ AreaGroup
\* A relative_position argument of AreaGroup.add_area: None, "center", an
\* (x_offset, y_offset) tuple or a {"from", "direction", "distance"} dict.
RelPos(kind, x, y, from, direction, distance) ==
    [kind |-> kind, x |-> x, y |-> y, from |-> from, direction |-> direction, distance |-> distance]
NotInGroup == RelPos("absent", 0, 0, None, None, 0)
\* AreaGroup.__init__: origin_coords defaults to Coordinates(0, 0, 0)
group_origin_coords == <<0, 0>>

\* AreaGroup.add_area(area, relative_position): the origin the area is left with
OriginAfterAddArea(area, rp) ==
    IF rp.kind \in {"none", "center"} THEN group_origin_coords
    ELSE IF rp.kind = "offset" THEN <<group_origin_coords[1] + rp.x, group_origin_coords[2] + rp.y>>
    ELSE \* the dict: self.areas already holds `area` itself (area.py:159)
         IF rp.from = area \/ layout[rp.from].kind # "absent"
         THEN LET o == area_origin_coords[rp.from]
              IN CASE rp.direction = "north" -> <<o[1], o[2] - rp.distance>>
                   [] rp.direction = "south" -> <<o[1], o[2] + rp.distance>>
                   [] rp.direction = "east" -> <<o[1] + rp.distance, o[2]>>
                   [] rp.direction = "west" -> <<o[1] - rp.distance, o[2]>>
                   [] OTHER -> area_origin_coords[area]
         ELSE group_origin_coords

\* Each Area is added to the group once (a second add_area only warns and overwrites).
AddArea(area, rp) ==
    /\ layout[area].kind = "absent"
    /\ area_origin_coords' = [area_origin_coords EXCEPT ![area] = OriginAfterAddArea(area, rp)]
    /\ layout' = [layout EXCEPT ![area] = rp]
    /\ out' = <<>>
    /\ UNCHANGED <<connections, grid_objects, items, npcs, portals, objVars, itemVars, shopVars,
                   playerVars, detection_draw, connect_calls, turnVars, probe>>

\* ------------------------------------------------------------ construction
NoDraw == [n \in NPCs |-> FALSE]

\* Area.__init__ for every Area, with the origins set as game_manager.py:78 sets them.
InitAreas ==
    /\ area_origin_coords = [a \in Areas |-> IF a = "land" THEN <<0, 0>>
                                             ELSE IF a = "shop" THEN <<1, 0>> ELSE <<0, 2>>]
    /\ grid_objects = [a \in Areas |-> EmptyMap]
    /\ items = [a \in Areas |-> <<>>]
    /\ npcs = [a \in Areas |-> <<>>]

\* NPC.__init__ (npc.py:13-16) and Item.__init__ (item.py:16-18) for the objects of the model.
InitObjects ==
    /\ coordinates = [o \in Occupants |-> IF IsItem(o) THEN NoCoords ELSE <<0, 0>>]
    /\ location = [n \in NPCs |-> None]
    /\ action_cooldown = [n \in NPCs |-> 0]
    /\ is_unpaid = [i \in ItemIds |-> FALSE]
    /\ unpaid_from_shop_id = [i \in ItemIds |-> None]

\* Player.__init__ (player.py:12-17)
InitPlayer ==
    /\ inventory = <<>>
    /\ current_area = None
    /\ player_coordinates = <<0, 0>>
    /\ suspicion_rating = 0

\* Nothing observed yet.
NoProbe == [call |-> "none"]

InitObserve ==
    /\ layout = [a \in Areas |-> NotInGroup]
    /\ detection_draw = NoDraw
    /\ connect_calls = 0
    /\ out = <<>>
    /\ shop_buys_stock = [a \in Areas |-> EmptyMap]
    /\ game_turn = 0
    /\ running = TRUE
    /\ suspicion_halves = 0
    /\ probe = NoProbe

\* NPCManager.__init__ (npc.py:151-152): no NPC is registered.
InitAux ==
    /\ InitObserve
    /\ npc_registry = <<>>

\* ------------------------------------------------------------ the placement machine
\* Area.add_object_to_grid called on an Item that lies nowhere yet (game_manager.py:131-133)
PlaceItem(i, a, grid_x, grid_y) ==
    /\ i \in world_items
    /\ ~InList(i, inventory)
    /\ coordinates[i] = NoCoords
    /\ PutWorld(add_object_to_grid(World, a, i, grid_x, grid_y))
    /\ out' = IF is_valid_grid_position(a, grid_x, grid_y) THEN <<>> ELSE <<"out_of_bounds">>
    /\ UNCHANGED <<area_origin_coords, connections, portals, class_name, action_cooldown, itemVars,
                   shopVars, inventory, current_area, player_coordinates, money, suspicion_rating,
                   layout, detection_draw, connect_calls, turnVars, probe>>

SetLocation(n, area, grid_x, grid_y) ==
    /\ PutWorld(set_location(World, n, area, grid_x, grid_y))
    /\ out' = <<>>
    /\ UNCHANGED <<area_origin_coords, connections, portals, class_name, action_cooldown, itemVars,
                   shopVars, inventory, current_area, player_coordinates, money, suspicion_rating,
                   layout, detection_draw, connect_calls, turnVars, probe>>

Offsets == {<<0, 1>>, <<0, -1>>, <<1, 0>>, <<-1, 0>>}

MoveOnGrid(n, dx, dy) ==
    /\ PutWorld(move_on_grid(World, n, dx, dy))
    /\ out' = IF MoveSucceeds(World, n, dx, dy) THEN <<"moves">> ELSE <<>>
    /\ UNCHANGED <<area_origin_coords, connections, portals, class_name, action_cooldown, itemVars,
                   shopVars, inventory, current_area, player_coordinates, money, suspicion_rating,
                   layout, detection_draw, connect_calls, turnVars, probe>>

InitGrid ==
    /\ InitAreas /\ InitObjects /\ InitPlayer /\ InitAux
    /\ connections = [a \in Areas |-> EmptyMap]
    /\ portals = [a \in Areas |-> EmptyMap]
    /\ class_name \in [NPCs -> ClassNames]
    /\ class_name[102] = "NPC"
    /\ world_items = {1}
    /\ item_name = [i \in ItemIds |-> IF i = 1 THEN "map" ELSE None]
    /\ shop_sells_stock = [a \in Areas |-> EmptyMap]
    /\ money = MaxMoney

\* The NPC object the placement machine moves about; 102 stays unplaced.
GridNPCs == {101}
\* The Areas the placement machine places into.
GridAreas == {"land", "shop"}

NextGrid ==
    \/ \E i \in ItemIds, a \in GridAreas, x \in -1..GridW, y \in -1..GridL : PlaceItem(i, a, x, y)
    \/ \E n \in GridNPCs, a \in GridAreas \cup {None}, x \in OptArgsX, y \in OptArgsY : SetLocation(n, a, x, y)
    \/ \E n \in GridNPCs, d \in Offsets : MoveOnGrid(n, d[1], d[2])
    \/ \E name \in Names : PickUp(name)
    \/ \E name \in Names : Drop(name)
    \/ \E a \in GridAreas, x \in OptArgsX, y \in OptArgsY : Teleport(a, x, y, NoDraw)

SpecGrid == InitGrid /\ [][NextGrid]_vars

\* The placement machine of an AreaGroup: occupants are placed while add_area lays the Areas out.
RelPositions ==
    {RelPos("none", 0, 0, None, None, 0), RelPos("center", 0, 0, None, None, 0),
     RelPos("offset", MaxOffset, 0, None, None, 0)}
    \cup {RelPos("from", 0, 0, a, d, MaxOffset) : a \in GridAreas, d \in {"north", "east"}}

InitGroup ==
    /\ InitGrid
    /\ class_name[101] = "NPC"

NextGroup ==
    \/ \E i \in ItemIds, a \in GridAreas, x \in -1..GridW, y \in -1..GridL : PlaceItem(i, a, x, y)
    \/ \E a \in GridAreas, rp \in RelPositions : AddArea(a, rp)

SpecGroup == InitGroup /\ [][NextGroup]_vars

\* ------------------------------------------------------------ NPC.update
\* A test of distance that everything passes.
WithinAnyDistance(c1, c2, r) == TRUE

\* Coordinates.distance_to(other) <= r, on integers: dx^2 + dy^2 <= r^2
WithinDistance(c1, c2, r) ==
    (c1[1] - c2[1]) * (c1[1] - c2[1]) + (c1[2] - c2[2]) * (c1[2] - c2[2]) <= r * r

\* The random draws one update may consume: random.random() < 0.3, random.choice of
\* the five offsets, randint(2, 5), random.random() < 0.2, randint(3, 6).
Choices == Offsets \cup {<<0, 0>>}
Rnd(move_roll, choice, cooldown, second_roll, second_cooldown) ==
    [move_roll |-> move_roll, choice |-> choice, cooldown |-> cooldown,
     second_roll |-> second_roll, second_cooldown |-> second_cooldown]

\* The result of an update: the placement record, the NPC's cooldown and the message returned.
Updated(w, cooldown, msg) == [w |-> w, cooldown |-> cooldown, msg |-> msg]

\* NPC.update(game_turn, player) (npc.py:53-78)
npc_update(w, n, cooldown, has_player, rnd) ==
    IF cooldown > 0 THEN Updated(w, cooldown - 1, None)
    ELSE IF w.location[n] # None /\ rnd.move_roll
    THEN LET moving == rnd.choice # <<0, 0>> /\ MoveSucceeds(w, n, rnd.choice[1], rnd.choice[2])
             w2 == IF moving THEN move_on_grid(w, n, rnd.choice[1], rnd.choice[2]) ELSE w
             msg == IF moving /\ has_player /\ current_area = w2.location[n]
                       /\ WithinDistance(w2.coordinates[n], player_coordinates, VisibleRadius)
                    THEN "moves" ELSE None
         IN Updated(w2, rnd.cooldown, msg)
    ELSE Updated(w, cooldown, None)

\* ParkCharacter.update(game_turn, player) (npc.py:88-101)
park_character_update(w, n, cooldown, has_player, rnd) ==
    LET u == npc_update(w, n, cooldown, has_player, rnd)
    IN IF u.msg = None /\ u.cooldown = 0 /\ rnd.second_roll
       THEN IF has_player /\ current_area = u.w.location[n]
            THEN IF WithinDistance(u.w.coordinates[n], player_coordinates, VisibleRadius)
                 THEN Updated(u.w, rnd.second_cooldown, "signature")
                 ELSE u
            ELSE Updated(u.w, rnd.second_cooldown, None)
       ELSE u

\* An informant that takes a step west at every update.
shady_character_wandering(w, n, cooldown, has_player, rnd) ==
    Updated(move_on_grid(w, n, -1, 0), cooldown, None)

\* ShadyCharacter.update(game_turn, player) (npc.py:140-149)
shady_character_update(w, n, cooldown, has_player, rnd) ==
    IF has_player /\ current_area = w.location[n]
       /\ WithinDistance(w.coordinates[n], player_coordinates, GreetingRadius) /\ rnd.second_roll
    THEN Updated(w, cooldown, "greeting")
    ELSE Updated(w, cooldown, None)

\* npc_obj.update(game_turn, player), dispatched on the object's class;
\* Guest.update and CastMember.update only call NPC.update (npc.py:114-117, 128-131).
update(w, n, cooldown, has_player, rnd) ==
    IF class_name[n] = "ParkCharacter" THEN park_character_update(w, n, cooldown, has_player, rnd)
    ELSE IF class_name[n] = "ShadyCharacter" THEN shady_character_update(w, n, cooldown, has_player, rnd)
    ELSE npc_update(w, n, cooldown, has_player, rnd)

\* The draws that can matter to an update of n (the others are fixed to one value).
RndFor(n) ==
    LET all == {Rnd(m, c, cd, s, scd) :
                   m \in BOOLEAN, c \in Choices, cd \in MoveCooldownMin..MoveCooldownMax,
                   s \in BOOLEAN, scd \in SignatureCooldownMin..SignatureCooldownMax}
    IN {r \in all :
          /\ ~r.move_roll => r.choice = <<0, 0>> /\ r.cooldown = MoveCooldownMin
          /\ class_name[n] = "ShadyCharacter" => ~r.move_roll
          /\ class_name[n] \notin {"ParkCharacter", "ShadyCharacter"} => ~r.second_roll
          /\ ~(r.second_roll /\ class_name[n] = "ParkCharacter") => r.second_cooldown = SignatureCooldownMin}

\* The log entry of a call of n.update; a returned message follows it.
UpdateTag(n) == IF n = 101 THEN "update_101" ELSE "update_102"

UpdateNPC(n, has_player, rnd) ==
    /\ LET u == update(World, n, action_cooldown[n], has_player, rnd)
       IN /\ PutWorld(u.w)
          /\ action_cooldown' = [action_cooldown EXCEPT ![n] = u.cooldown]
          /\ out' = IF u.msg = None THEN <<UpdateTag(n)>> ELSE <<UpdateTag(n), u.msg>>
    /\ UNCHANGED <<area_origin_coords, connections, portals, class_name, itemVars, shopVars,
                   playerVars, layout, detection_draw, connect_calls, turnVars, probe>>

\* ------------------------------------------------------------ the connection machine
InitConn ==
    /\ InitGrid
    /\ class_name[101] = "NPC"

\* The labels the machine connects with; "west" and "down" come about as reverses.
ConnLabels == {"north", "North", "east", "up", "enter shop"}

NextConn ==
    \E a \in RegisteredAreas, d \in ConnLabels, b \in RegisteredAreas \cup {None} : AddConnection(a, d, b)

SpecConn == InitConn /\ [][NextConn]_vars

\* ------------------------------------------------------------ the shop machine
\* The world after a build in the manner of GameManager.initialize_game: a Land
\* with a Shop inside it, a second Shop outside it, sell stock, two NPCs placed in
\* the first Shop with set_location, and the player placed in the Land.
NoConnections == [a \in Areas |-> EmptyMap]
BuiltConnections ==
    add_connection(
        add_connection(
            add_connection(NoConnections, "land", "enter shop", "shop"),
            "shop", "exit to land", "land"),
        "shop", "east", "bazaar")

Portal(target, gx, gy) == [target_area |-> target, target_gx |-> gx, target_gy |-> gy]
StockEntry(price, stock, unbounded) == [price |-> price, stock |-> stock, unbounded |-> unbounded]

\* The cell of an Area's portal: the west end of the row the player walks along.
PortalCell(a) == <<0, ResolveY(a, <<>>)>>

BlankWorld ==
    [grid_objects |-> [a \in Areas |-> EmptyMap], items |-> [a \in Areas |-> <<>>],
     npcs |-> [a \in Areas |-> <<>>],
     coordinates |-> [o \in Occupants |-> IF IsItem(o) THEN NoCoords ELSE <<0, 0>>],
     location |-> [n \in NPCs |-> None]]

InitShop ==
    /\ area_origin_coords = [a \in Areas |-> IF a = "land" THEN <<0, 0>>
                                             ELSE IF a = "shop" THEN <<1, 0>> ELSE <<0, 2>>]
    /\ class_name = [n \in NPCs |-> IF n = 101 THEN "CastMember" ELSE "NPC"]
    /\ action_cooldown = [n \in NPCs |-> 0]
    /\ LET w == set_location(set_location(BlankWorld, 101, "shop", <<1>>, <<0>>),
                             102, "shop", <<0>>, <<0>>)
       IN /\ grid_objects = w.grid_objects
          /\ items = w.items
          /\ npcs = w.npcs
          /\ coordinates = w.coordinates
          /\ location = w.location
    /\ connections = BuiltConnections
    /\ portals = [a \in Areas |->
                    IF a = "shop" THEN (PortalCell(a) :> Portal("land", <<>>, <<>>))
                    ELSE IF a = "bazaar" THEN (PortalCell(a) :> Portal("land", <<0>>, <<>>))
                    ELSE EmptyMap]
    /\ world_items = {}
    /\ item_name = [i \in ItemIds |-> None]
    /\ is_unpaid = [i \in ItemIds |-> FALSE]
    /\ unpaid_from_shop_id = [i \in ItemIds |-> None]
    /\ shop_sells_stock = [a \in Areas |->
                    IF a = "shop" THEN ("ears" :> StockEntry(2, StockQty, FALSE))
                                       @@ ("churro" :> StockEntry(1, 0, TRUE))
                    ELSE IF a = "bazaar" THEN ("map" :> StockEntry(2, StockQty, FALSE))
                    ELSE EmptyMap]
    /\ inventory = <<>>
    /\ current_area = "land"
    /\ player_coordinates = GlobalOf(<<0, 0>>, ResolveX("land", <<>>), ResolveY("land", <<>>))
    /\ money = MaxMoney
    /\ suspicion_rating = 0
    /\ InitAux

\* A detection draw is made only on the way out of a shop.
DrawsOnLeaving(area) ==
    IF area # None /\ LeavingShop(current_area, area) THEN Draws ELSE {NoDraw}

\* The commands the player walks the shops with: along the row, through the doors,
\* and one label no Area knows.
ShopLabels == {"east", "west", "up", "enter shop", "exit to land"}

NextShop ==
    \/ \E name \in Names : PickUp(name)
    \/ \E name \in Names : BuyItem(name)
    \/ \E d \in ShopLabels : \E draw \in DrawsOnLeaving(MoveTarget(d)) : Move(d, draw)
    \/ \E a \in RegisteredAreas, x \in {<<>>, <<GridW>>} :
          \E draw \in DrawsOnLeaving(a) : Teleport(a, x, <<>>, draw)

SpecShop == InitShop /\ [][NextShop]_vars

\* ------------------------------------------------------------ the NPC machine
\* NPC 101 is of any class and placed in the Land, NPC 102 is a plain NPC placed
\* in the Shop; the player teleports about while the NPCs are updated.
InitNpc ==
    /\ area_origin_coords = [a \in Areas |-> IF a = "land" THEN <<0, 0>>
                                             ELSE IF a = "shop" THEN <<1, 0>> ELSE <<0, 2>>]
    /\ class_name \in [NPCs -> ClassNames]
    /\ class_name[102] = "NPC"
    /\ action_cooldown = [n \in NPCs |-> 0]
    /\ LET w == set_location(set_location(BlankWorld, 101, "land", <<>>, <<>>),
                             102, "shop", <<0>>, <<0>>)
       IN /\ grid_objects = w.grid_objects
          /\ items = w.items
          /\ npcs = w.npcs
          /\ coordinates = w.coordinates
          /\ location = w.location
    /\ connections = NoConnections
    /\ portals = [a \in Areas |-> EmptyMap]
    /\ world_items = {}
    /\ item_name = [i \in ItemIds |-> None]
    /\ is_unpaid = [i \in ItemIds |-> FALSE]
    /\ unpaid_from_shop_id = [i \in ItemIds |-> None]
    /\ shop_sells_stock = [a \in Areas |-> EmptyMap]
    /\ inventory = <<>>
    /\ current_area = "land"
    /\ player_coordinates = GlobalOf(<<0, 0>>, ResolveX("land", <<>>), ResolveY("land", <<>>))
    /\ money = MaxMoney
    /\ suspicion_rating = 0
    /\ InitAux

NextNpc ==
    \/ \E n \in NPCs : \E has_player \in BOOLEAN, rnd \in RndFor(n) : UpdateNPC(n, has_player, rnd)
    \/ \E a \in GridAreas, x \in {<<0>>, <<GridW>>} : Teleport(a, x, <<>>, NoDraw)

SpecNpc == InitNpc /\ [][NextNpc]_vars

\* ============================================================ claims

\* ------------------------------------------------------------ C1
\* C1: no occupant is listed in grid_objects under two different cells of the
\* same Area, after any sequence of placements, moves, pick-ups and drops.
C1_OneCellPerArea ==
    \A a \in Areas, o \in Occupants : Cardinality(CellsOf(grid_objects[a], o)) <= 1

\* ------------------------------------------------------------ C2
\* C2: for every occupant kind and every Area, the occupant is in the Area's
\* items or npcs list if and only if it is listed in some cell of grid_objects.
ListedIn(a, o) == IF IsItem(o) THEN InList(o, items[a]) ELSE InList(o, npcs[a])
C2_ListedIffPlaced ==
    \A a \in Areas, o \in Occupants : ListedIn(a, o) <=> CellsOf(grid_objects[a], o) # {}

\* ------------------------------------------------------------ C3
\* C3: every occupant listed in an Area's grid_objects at cell (gx, gy) has
\* stored global coordinates equal to the Area's origin plus (gx, gy).
C3_CoordinatesAreOriginPlusCell ==
    \A a \in Areas : \A pos \in DOMAIN grid_objects[a] :
        \A k \in 1..Len(grid_objects[a][pos]) :
            coordinates[grid_objects[a][pos][k]] = GlobalOf(area_origin_coords[a], pos[1], pos[2])

\* ------------------------------------------------------------ C4
\* A CastMember object stands in Area a: it was placed there with set_location.
StaffPlacedIn(a, n) ==
    /\ class_name[n] = "CastMember"
    /\ location[n] = a
    /\ CellsOf(grid_objects[a], n) # {}

\* The step takes the player out of a shop, to an Area that is neither that shop nor its parent.
LeavesShopStep ==
    /\ current_area # None
    /\ is_shop(current_area)
    /\ current_area' # current_area
    /\ current_area' # parent_area(current_area)

\* C4: when the player leaves a shop holding unpaid items from it and a CastMember
\* placed in that shop has a successful detection draw, every item unpaid from that
\* shop is removed from the inventory (the others stay) and suspicion rises by
\* 10 per such item plus a flat 20.
C4_CaughtWhenDrawSucceeds ==
    [][(/\ LeavesShopStep
        /\ SelectUnpaid(inventory, current_area) # <<>>
        /\ \E n \in NPCs : StaffPlacedIn(current_area, n) /\ detection_draw'[n])
       => (/\ inventory' = RemoveAll(inventory, SelectUnpaid(inventory, current_area))
           /\ suspicion_rating' = suspicion_rating
                                    + TheftSuspicionPerItem * Len(SelectUnpaid(inventory, current_area))
                                    + CaughtSuspicion)]_vars

\* ------------------------------------------------------------ C5
\* C5: when the player leaves a shop in which no staff member stands, holding
\* n >= 1 unpaid items from it, the inventory and the items' unpaid flags are
\* unchanged and suspicion rises by exactly 10 * n.
C5_NoStaffNoConfiscation ==
    [][(/\ LeavesShopStep
        /\ SelectUnpaid(inventory, current_area) # <<>>
        /\ \A n \in NPCs : ~StaffPlacedIn(current_area, n))
       => (/\ inventory' = inventory
           /\ is_unpaid' = is_unpaid
           /\ unpaid_from_shop_id' = unpaid_from_shop_id
           /\ suspicion_rating' = suspicion_rating
                                    + TheftSuspicionPerItem * Len(SelectUnpaid(inventory, current_area)))]_vars

\* The player has just slipped out of the bazaar, where no staff stands, with two unpaid items.
C5_Witness ==
    /\ InList("slipped_out", out)
    /\ current_area # "bazaar"
    /\ Len(SelectUnpaid(inventory, "bazaar")) = 2
    /\ \A n \in NPCs : ~StaffPlacedIn("bazaar", n)
    /\ suspicion_rating >= LeaveSuspicion(2)

\* ------------------------------------------------------------ C6
\* C6: the theft check runs on a player transition exactly when the Area left is
\* a shop, the player holds an item unpaid from it and the destination is neither
\* that shop nor its direct parent; a transition to the parent or within the shop
\* leaves suspicion and inventory unchanged.
C6_TheftCheckPrecondition ==
    [][/\ InList("attempt_leave", out')
            <=> (LeavesShopStep /\ SelectUnpaid(inventory, current_area) # <<>>)
       /\ (/\ InList("now_in", out')
           /\ current_area # None
           /\ is_shop(current_area)
           /\ current_area' \in {current_area, parent_area(current_area)})
          => (suspicion_rating' = suspicion_rating /\ inventory' = inventory)]_vars

\* The player has stepped through the shop's portal into the parent Land with an
\* unpaid item of the shop, and the suspicion is still that of taking the item.
C6_Witness ==
    /\ out = <<"you_move", "now_in">>
    /\ current_area = "land"
    /\ PlayerGridPosition = <<ResolveX("land", <<>>), ResolveY("land", <<>>)>>
    /\ Len(inventory) = 1
    /\ Len(SelectUnpaid(inventory, "shop")) = 1
    /\ suspicion_rating = TakeSuspicion

\* ------------------------------------------------------------ C7
\* C7: for the generic NPC, the Guest, the CastMember and the ParkCharacter, an
\* update called with cooldown > 0 lowers the cooldown by exactly one, returns no
\* message and does not move the NPC.
C7_CooldownOnlyDecrements ==
    [][\A n \in NPCs :
          (/\ out' # <<>>
           /\ out'[1] = UpdateTag(n)
           /\ class_name[n] \in {"NPC", "Guest", "CastMember", "ParkCharacter"}
           /\ action_cooldown[n] > 0)
          => (/\ action_cooldown'[n] = action_cooldown[n] - 1
              /\ out' = <<UpdateTag(n)>>
              /\ coordinates'[n] = coordinates[n]
              /\ grid_objects' = grid_objects)]_vars

\* ------------------------------------------------------------ C8
PurchaseStatuses == {"success", "not_found", "out_of_stock", "cannot_afford", "creation_failed"}

\* The step is a call of process_player_purchase for item `name` in the current shop.
PurchaseStep(name) ==
    /\ Len(out') = 2
    /\ out'[1] \in PurchaseStatuses
    /\ out'[2] = name

StockNeverNegative ==
    \A a \in Areas : \A name \in DOMAIN shop_sells_stock[a] :
        ~shop_sells_stock[a][name].unbounded => shop_sells_stock[a][name].stock >= 0

\* C8: the remaining stock of a finite sell-stock entry is never negative, and a
\* purchase attempted when it is 0 yields out_of_stock, never success.
C8_OutOfStock ==
    [][/\ StockNeverNegative'
       /\ \A name \in Names :
             (/\ PurchaseStep(name)
              /\ name \in DOMAIN shop_sells_stock[current_area]
              /\ ~shop_sells_stock[current_area][name].unbounded
              /\ shop_sells_stock[current_area][name].stock = 0)
             => (out'[1] = "out_of_stock" /\ shop_sells_stock' = shop_sells_stock)]_vars

\* A purchase of the sold-out ears has just been refused.
C8_Witness ==
    /\ out = <<"out_of_stock", "ears">>
    /\ current_area = "shop"
    /\ shop_sells_stock["shop"]["ears"].stock = 0

\* ------------------------------------------------------------ C9
\* C9 as stated: a purchase attempted with funds strictly below the item's price
\* yields cannot_afford and leaves money, inventory and remaining stock unchanged.
C9_AsStated ==
    [][\A name \in Names :
          (/\ PurchaseStep(name)
           /\ name \in DOMAIN shop_sells_stock[current_area]
           /\ money < shop_sells_stock[current_area][name].price)
          => (/\ out'[1] = "cannot_afford"
              /\ money' = money
              /\ inventory' = inventory
              /\ shop_sells_stock' = shop_sells_stock)]_vars

\* C9 amended: a purchase of an item whose remaining stock is positive or unbounded,
\* attempted with funds strictly below its price, yields cannot_afford and leaves
\* money, inventory and remaining stock unchanged.
C9_CannotAffordInStock ==
    [][\A name \in Names :
          (/\ PurchaseStep(name)
           /\ name \in DOMAIN shop_sells_stock[current_area]
           /\ (shop_sells_stock[current_area][name].unbounded
               \/ shop_sells_stock[current_area][name].stock > 0)
           /\ money < shop_sells_stock[current_area][name].price)
          => (/\ out'[1] = "cannot_afford"
              /\ money' = money
              /\ inventory' = inventory
              /\ shop_sells_stock' = shop_sells_stock)]_vars

\* The shop has just refused the ears, in stock at a price above the player's money.
C9_Witness ==
    /\ out = <<"cannot_afford", "ears">>
    /\ current_area = "shop"
    /\ shop_sells_stock["shop"]["ears"].stock > 0
    /\ money < shop_sells_stock["shop"]["ears"].price

\* ------------------------------------------------------------ C10
\* The step is the call a.add_connection(d, b).
ConnectStep(a, d, b) == connect_calls' = connect_calls + 1 /\ out' = <<a, d, b>>

\* C10: A.add_connection(d, B) with d one of the six directions creates the
\* opposite connection from B to A if and only if B had no entry for the opposite
\* direction; an existing opposite entry of B keeps its previous target.
C10_ReverseConnection ==
    [][\A a \in RegisteredAreas, b \in RegisteredAreas, d \in ReverseDirections :
          ConnectStep(a, d, b)
          => LET rev == reverse_directions(d)
             IN /\ rev \in DOMAIN connections'[b]
                /\ connections'[b][rev] =
                      IF rev \in DOMAIN connections[b] THEN connections[b][rev] ELSE a
                /\ connections'[a][d] = b]_vars

\* land.add_connection("north", shop) has just run while the shop's "south"
\* already led to the bazaar, and it still does.
C10_Witness ==
    /\ out = <<"land", "north", "shop">>
    /\ "south" \in DOMAIN connections["shop"]
    /\ connections["shop"]["south"] = "bazaar"
    /\ connections["land"]["north"] = "shop"

\* ------------------------------------------------------------ C11
\* C11: A.add_connection(label, B) with a label that is not one of the six
\* directions (in any letter case) stores the connection under the lower-cased
\* label on A and changes nothing else: B's connections and every other Area's
\* are as before.
C11_LabelHasNoReverse ==
    [][\A a \in RegisteredAreas, b \in RegisteredAreas, d \in ConnLabels :
          (ConnectStep(a, d, b) /\ lower(d) \notin ReverseDirections)
          => /\ connections' = [connections EXCEPT ![a] = MapPut(@, lower(d), b)]
             /\ a # b => connections'[b] = connections[b]]_vars

\* land.add_connection("enter shop", shop) has just run and the shop has no connection.
C11_Witness ==
    /\ out = <<"land", "enter shop", "shop">>
    /\ connections["land"]["enter shop"] = "shop"
    /\ connections["shop"] = EmptyMap

\* ------------------------------------------------------------ the coordinate machine
\* The origins an Area may be built with.
Origins == {<<x, y>> : x \in (0 - MaxOffset)..MaxOffset, y \in (0 - MaxOffset)..MaxOffset}

\* The Land and the Shop are built at any of the origins; cells are then
\* converted to global coordinates and back.
InitCoord ==
    /\ InitObjects /\ InitPlayer /\ InitAux
    /\ area_origin_coords \in [Areas -> Origins]
    /\ area_origin_coords["bazaar"] = <<0, 0>>
    /\ area_origin_coords["promenade"] = <<0, 0>>
    /\ connections = [a \in Areas |-> EmptyMap]
    /\ grid_objects = [a \in Areas |-> EmptyMap]
    /\ items = [a \in Areas |-> <<>>]
    /\ npcs = [a \in Areas |-> <<>>]
    /\ portals = [a \in Areas |-> EmptyMap]
    /\ class_name = [n \in NPCs |-> "NPC"]
    /\ world_items = {}
    /\ item_name = [i \in ItemIds |-> None]
    /\ shop_sells_stock = [a \in Areas |-> EmptyMap]
    /\ money = MaxMoney

\* a.get_relative_coordinates(a.get_global_coordinates(grid_x, grid_y))
Convert(a, grid_x, grid_y) ==
    /\ probe' = [call |-> "convert", area |-> a, cell |-> <<grid_x, grid_y>>,
                 global |-> get_global_coordinates(a, grid_x, grid_y),
                 back |-> get_relative_coordinates(a, get_global_coordinates(a, grid_x, grid_y))]
    /\ UNCHANGED <<areaVars, objVars, itemVars, shopVars, playerVars, auxVars, turnVars>>

NextCoord ==
    \E a \in GridAreas, grid_x \in 0..(GridW - 1), grid_y \in 0..(GridL - 1) : Convert(a, grid_x, grid_y)

SpecCoord == InitCoord /\ [][NextCoord]_vars

PlaceObjs == {1, 101}
PlaceCells == {<<0, 0>>, <<GridW - 1, 0>>, <<GridW, 0>>, <<0 - 1, 0>>, <<0, GridL>>}

InitPlace ==
    /\ InitGrid
    /\ class_name[101] = "NPC"

\* area.add_object_to_grid(obj, grid_x, grid_y), called directly
AddObject(a, obj, grid_x, grid_y) ==
    /\ obj \in NPCs \/ obj \in world_items
    /\ PutWorld(add_object_to_grid(World, a, obj, grid_x, grid_y))
    /\ out' = IF is_valid_grid_position(a, grid_x, grid_y) THEN <<>> ELSE <<"out_of_bounds">>
    /\ probe' = [call |-> "placed", area |-> a, obj |-> obj, cell |-> <<grid_x, grid_y>>,
                 before |-> grid_objects[a]]
    /\ UNCHANGED <<area_origin_coords, connections, portals, class_name, action_cooldown, itemVars,
                   shopVars, playerVars, layout, detection_draw, connect_calls, turnVars>>

\* area.remove_object_from_grid(obj, grid_x, grid_y), called directly; the probe
\* keeps the grid of before the placement when this call undoes the call before it.
RemoveObject(a, obj, grid_x, grid_y) ==
    /\ obj \in NPCs \/ obj \in world_items
    /\ PutWorld(remove_object_from_grid(World, a, obj, grid_x, grid_y))
    /\ out' = <<>>
    /\ probe' = [call |-> "removed", area |-> a, obj |-> obj, cell |-> <<grid_x, grid_y>>,
                 placed_before |->
                     IF /\ probe.call = "placed"
                        /\ probe.area = a /\ probe.obj = obj /\ probe.cell = <<grid_x, grid_y>>
                     THEN <<probe.before>> ELSE <<>>]
    /\ UNCHANGED <<area_origin_coords, connections, portals, class_name, action_cooldown, itemVars,
                   shopVars, playerVars, layout, detection_draw, connect_calls, turnVars>>

NextPlace ==
    \/ \E obj \in PlaceObjs, c \in PlaceCells : AddObject("land", obj, c[1], c[2])
    \/ \E obj \in PlaceObjs, c \in PlaceCells : RemoveObject("land", obj, c[1], c[2])

SpecPlace == InitPlace /\ [][NextPlace]_vars

\* ------------------------------------------------------------ C13
\* A removal that undid the placement made by the call before it, at a valid cell.
UndoesPlacement ==
    /\ probe.call = "removed"
    /\ probe.placed_before # <<>>
    /\ is_valid_grid_position(probe.area, probe.cell[1], probe.cell[2])

\* grid_objects of the probed Area, and every cell's get_objects_at_grid_cell,
\* are those of before the placement.
GridRestored ==
    /\ grid_objects[probe.area] = probe.placed_before[1]
    /\ \A x \in -1..GridW, y \in -1..GridL :
          ObjectsAt(grid_objects[probe.area], <<x, y>>) = ObjectsAt(probe.placed_before[1], <<x, y>>)
    /\ probe.cell \in DOMAIN grid_objects[probe.area] => grid_objects[probe.area][probe.cell] # <<>>

\* C13 as stated: placing an occupant at a valid cell and then removing it from
\* the same cell restores the Area's grid_objects, and get_objects_at_grid_cell
\* of every cell, with no empty-list entry left for the cell.
C13_AsStated == UndoesPlacement => GridRestored

\* C13 amended: the same, for an occupant that was not already listed in that
\* cell when it was placed.
C13_PlaceThenRemove ==
    (UndoesPlacement /\ ~InList(probe.obj, ObjectsAt(probe.placed_before[1], probe.cell)))
    => GridRestored

\* An occupant was placed into an empty cell beside an occupied one and removed
\* again: the cell has no entry, as before.
C13_Witness ==
    /\ UndoesPlacement
    /\ probe.cell \notin DOMAIN probe.placed_before[1]
    /\ probe.placed_before[1] # EmptyMap
    /\ probe.cell \notin DOMAIN grid_objects[probe.area]

\* ------------------------------------------------------------ the walk machine
\* The world of the shop machine without sell stock in the Bazaar, with NPC 101 a
\* plain NPC or a Cast Member, and with a portal in every Area: Land to Shop at
\* cell (0, 0), Shop to Land at no given cell, Bazaar to Land at a column east of
\* the Land's grid (add_portal checks the cell the portal is at, area.py:65-67, not
\* the cell it leads to).
InitWalk ==
    /\ area_origin_coords = [a \in Areas |-> IF a = "land" THEN <<0, 0>>
                                             ELSE IF a = "shop" THEN <<1, 0>> ELSE <<0, 2>>]
    /\ class_name \in [NPCs -> {"NPC", "CastMember"}]
    /\ class_name[102] = "NPC"
    /\ action_cooldown = [n \in NPCs |-> 0]
    /\ LET w == set_location(set_location(BlankWorld, 101, "shop", <<1>>, <<0>>),
                             102, "shop", <<0>>, <<0>>)
       IN /\ grid_objects = w.grid_objects
          /\ items = w.items
          /\ npcs = w.npcs
          /\ coordinates = w.coordinates
          /\ location = w.location
    /\ connections = BuiltConnections
    /\ portals = [a \in Areas |->
                    IF a = "land" THEN (PortalCell(a) :> Portal("shop", <<0>>, <<0>>))
                    ELSE IF a = "shop" THEN (PortalCell(a) :> Portal("land", <<>>, <<>>))
                    ELSE (PortalCell(a) :> Portal("land", <<GridW>>, <<>>))]
    /\ world_items = {}
    /\ item_name = [i \in ItemIds |-> None]
    /\ is_unpaid = [i \in ItemIds |-> FALSE]
    /\ unpaid_from_shop_id = [i \in ItemIds |-> None]
    /\ shop_sells_stock = [a \in Areas |->
                    IF a = "shop" THEN ("ears" :> StockEntry(2, StockQty, FALSE)) ELSE EmptyMap]
    /\ inventory = <<>>
    /\ current_area = "land"
    /\ player_coordinates = GlobalOf(<<0, 0>>, ResolveX("land", <<>>), ResolveY("land", <<>>))
    /\ money = MaxMoney
    /\ suspicion_rating = 0
    /\ InitAux

\* player.set_current_area(area, grid_x, grid_y), called directly
SetCurrentArea(area, grid_x, grid_y, draw) ==
    /\ ~Crashed
    /\ LET p == set_current_area(PlayerRec, area, grid_x, grid_y, draw)
       IN /\ p.suspicion_rating <= MaxSuspicion
          /\ PutPlayer(p)
    /\ detection_draw' = IF area # None /\ LeavingShop(current_area, area) THEN draw ELSE detection_draw
    /\ UNCHANGED <<areaVars, objVars, itemVars, shopVars, money, layout, connect_calls, turnVars, probe>>

\* The columns the player is sent to: none given, the west edge, one past the east edge.
WalkArgsX == {<<>>, <<0>>, <<GridW>>}

NextWalk ==
    \/ PickUp("ears")
    \/ \E d \in Labels : \E draw \in DrawsOnLeaving(MoveTarget(d)) : Move(d, draw)
    \/ \E a \in RegisteredAreas \cup {None}, x \in WalkArgsX :
          \E draw \in DrawsOnLeaving(a) : Teleport(a, x, <<>>, draw)
    \/ \E a \in {"land", None}, x \in WalkArgsX :
          \E draw \in DrawsOnLeaving(a) : SetCurrentArea(a, x, <<>>, draw)

SpecWalk == InitWalk /\ [][NextWalk]_vars

\* The step is a call of move(d).
MoveStep(d) == \E draw \in Draws \cup {NoDraw} : Move(d, draw)

\* The cell a step in direction d from the player's cell leads to.
StepCell(d) == <<PlayerGridPosition[1] + StepOf(d)[1], PlayerGridPosition[2] + StepOf(d)[2]>>

\* The default centre cell of Area a: (width // 2, length // 2), clamped into the grid.
DefaultCentre(a) ==
    <<Max2(0, Min2(grid_width(a) \div 2, grid_width(a) - 1)),
      Max2(0, Min2(grid_length(a) \div 2, grid_length(a) - 1))>>

\* The player stands in Area a at cell c.
PlayerAt(a, c) ==
    /\ current_area = a
    /\ player_coordinates = <<area_origin_coords[a][1] + c[1], area_origin_coords[a][2] + c[2]>>

\* ------------------------------------------------------------ C14
\* C14: a directional step whose destination cell is out of bounds, in an Area
\* that has no connection labelled with that direction, changes neither the
\* player's current area nor the player's position.
C14_BlockedStepStays ==
    [][\A d \in Directions :
          (/\ MoveStep(d)
           /\ ~is_valid_grid_position(current_area, StepCell(d)[1], StepCell(d)[2])
           /\ d \notin DOMAIN connections[current_area])
          => /\ current_area' = current_area
             /\ player_coordinates' = player_coordinates]_vars

\* The player was turned back at the west edge of the Land, at cell (0, 0).
C14_Witness ==
    /\ out = <<"cannot_go">>
    /\ PlayerAt("land", <<0, 0>>)

\* ------------------------------------------------------------ C15
\* move(d) takes a connection: the step leaves the grid in a direction that labels
\* a connection, or d is no direction and labels a connection.
TakesConnection(d) ==
    /\ d \in DOMAIN connections[current_area]
    /\ d \in Directions => ~is_valid_grid_position(current_area, StepCell(d)[1], StepCell(d)[2])

\* C15: when the player takes a connection, the player ends in the connected Area
\* at its default centre cell (width // 2, length // 2), clamped into the grid.
C15_ConnectionToCentre ==
    [][\A d \in Labels :
          (MoveStep(d) /\ TakesConnection(d))
          => LET target == connections[current_area][d]
             IN /\ current_area' = target
                /\ player_coordinates' =
                      <<area_origin_coords[target][1] + DefaultCentre(target)[1],
                        area_origin_coords[target][2] + DefaultCentre(target)[2]>>]_vars

\* The player walked off the east edge of the Shop and stands at the centre of the Bazaar.
C15_Witness ==
    /\ out = <<"you_head", "now_in">>
    /\ PlayerAt("bazaar", DefaultCentre("bazaar"))
    /\ connections["shop"]["east"] = "bazaar"

\* ------------------------------------------------------------ C16
\* move(d) is an in-bounds step onto a cell that has a portal.
StepsOntoPortal(d) ==
    /\ d \in Directions
    /\ is_valid_grid_position(current_area, StepCell(d)[1], StepCell(d)[2])
    /\ StepCell(d) \in DOMAIN portals[current_area]

\* The portal the step of direction d lands on.
PortalAhead(d) == portals[current_area][StepCell(d)]

\* C16 as stated: an in-bounds step onto a portal cell puts the player, in the
\* same move, into the portal's target area, at the portal's target cell when one
\* is specified and at the target's default centre cell otherwise.
C16_AsStated ==
    [][\A d \in Directions :
          (MoveStep(d) /\ StepsOntoPortal(d))
          => LET po == PortalAhead(d)
                 cell == <<IF po.target_gx = <<>> THEN DefaultCentre(po.target_area)[1] ELSE po.target_gx[1],
                           IF po.target_gy = <<>> THEN DefaultCentre(po.target_area)[2] ELSE po.target_gy[1]>>
             IN /\ current_area' = po.target_area
                /\ player_coordinates' =
                      <<area_origin_coords[po.target_area][1] + cell[1],
                        area_origin_coords[po.target_area][2] + cell[2]>>]_vars

\* C16 amended: an in-bounds step onto a portal cell puts the player, in the same
\* move, into the portal's target area, at the portal's target cell brought into
\* the target's bounds: each specified coordinate is clamped into
\* [0, width - 1] or [0, length - 1], each unspecified one is the centre's.
C16_PortalToClampedCell ==
    [][\A d \in Directions :
          (MoveStep(d) /\ StepsOntoPortal(d))
          => LET po == PortalAhead(d)
                 t == po.target_area
                 cell == <<IF po.target_gx = <<>> THEN DefaultCentre(t)[1]
                           ELSE Max2(0, Min2(po.target_gx[1], grid_width(t) - 1)),
                           IF po.target_gy = <<>> THEN DefaultCentre(t)[2]
                           ELSE Max2(0, Min2(po.target_gy[1], grid_length(t) - 1))>>
             IN /\ current_area' = t
                /\ player_coordinates' =
                      <<area_origin_coords[t][1] + cell[1], area_origin_coords[t][2] + cell[2]>>]_vars

\* The player stepped onto the Land's portal and stands in the Shop at the
\* portal's target cell (0, 0), which is not the Shop's centre.
C16_Witness ==
    /\ out = <<"you_move", "now_in">>
    /\ PlayerAt("shop", <<0, 0>>)
    /\ DefaultCentre("shop") # <<0, 0>>

\* ------------------------------------------------------------ C17
\* The step is a call of set_current_area or of teleport with a null target area.
NullTargetStep ==
    \E x \in WalkArgsX : SetCurrentArea(None, x, <<>>, NoDraw) \/ Teleport(None, x, <<>>, NoDraw)

\* C17: set_current_area, and teleport, with a null target area is rejected: the
\* player's current area and coordinates are after the call what they were before
\* it, and no theft check runs (nothing is charged, nothing is taken away).
C17_NullTargetRejected ==
    [][NullTargetStep
       => /\ current_area' = current_area
          /\ player_coordinates' = player_coordinates
          /\ suspicion_rating' = suspicion_rating
          /\ inventory' = inventory
          /\ ~InList("attempt_leave", out')]_vars

\* set_current_area was called with a null area while the player stood in the
\* Shop holding an item not paid for there.
C17_Witness ==
    /\ out = <<"null_area">>
    /\ current_area = "shop"
    /\ SelectUnpaid(inventory, "shop") # <<>>

\* ------------------------------------------------------------ the roaming machine
\* NPC 101 stands in the Land, of any class, and is updated with the player in
\* the Land or with no player passed; what the move roll drew is kept in the probe.
InitRoam == InitNpc

\* npc_obj.update(game_turn, player) with the draws rnd
ObservedUpdate(n, has_player, rnd) ==
    /\ LET u == update(World, n, action_cooldown[n], has_player, rnd)
       IN /\ PutWorld(u.w)
          /\ action_cooldown' = [action_cooldown EXCEPT ![n] = u.cooldown]
          /\ out' = IF u.msg = None THEN <<UpdateTag(n)>> ELSE <<UpdateTag(n), u.msg>>
    /\ probe' = [call |-> "update", npc |-> n, has_player |-> has_player, move_roll |-> rnd.move_roll,
                 choice |-> rnd.choice, second_roll |-> rnd.second_roll]
    /\ UNCHANGED <<area_origin_coords, connections, portals, class_name, itemVars, shopVars,
                   playerVars, layout, detection_draw, connect_calls, turnVars>>

NextRoam ==
    \E has_player \in BOOLEAN, rnd \in RndFor(101) : ObservedUpdate(101, has_player, rnd)

SpecRoam == InitRoam /\ [][NextRoam]_vars

\* ------------------------------------------------------------ C18
\* The step is a call of n.update in which the move roll succeeds, made with
\* cooldown 0 for an NPC that is in an Area, the cell at the offset drawn being
\* inside the grid.
RolledMoveStep(n) ==
    /\ out' # <<>>
    /\ out'[1] = UpdateTag(n)
    /\ probe'.call = "update"
    /\ probe'.npc = n
    /\ action_cooldown[n] = 0
    /\ location[n] # None
    /\ probe'.move_roll
    /\ probe'.choice # <<0, 0>>
    /\ is_valid_grid_position(location[n], NpcGridPosition(World, n)[1] + probe'.choice[1],
                              NpcGridPosition(World, n)[2] + probe'.choice[2])

\* C18: an NPC update with cooldown 0 in which the move roll succeeds and the
\* chosen offset leads to an in-bounds cell relocates the NPC by exactly that
\* offset (it is no longer listed in the old cell, it is listed in the new one,
\* its coordinates are the new cell's) and leaves its cooldown in 2..5.
C18_RolledMoveRelocates ==
    [][\A n \in NPCs :
          RolledMoveStep(n)
          => LET a == location[n]
                 old == NpcGridPosition(World, n)
                 new == <<old[1] + probe'.choice[1], old[2] + probe'.choice[2]>>
             IN /\ location'[n] = a
                /\ ~InList(n, ObjectsAt(grid_objects'[a], old))
                /\ InList(n, ObjectsAt(grid_objects'[a], new))
                /\ coordinates'[n] = <<area_origin_coords[a][1] + new[1], area_origin_coords[a][2] + new[2]>>
                /\ action_cooldown'[n] \in MoveCooldownMin..MoveCooldownMax]_vars

\* NPC 101 has just moved within sight of the player: it is listed in the cell
\* its coordinates name, which is not the centre cell it was placed in, and waits.
C18_Witness ==
    /\ probe.call = "update" /\ probe.npc = 101 /\ probe.move_roll
    /\ out = <<UpdateTag(101), "moves">>
    /\ action_cooldown[101] \in MoveCooldownMin..MoveCooldownMax
    /\ NpcGridPosition(World, 101) # DefaultCentre("land")
    /\ CellsOf(grid_objects["land"], 101) = {NpcGridPosition(World, 101)}

\* ------------------------------------------------------------ the turn engine
\* npc_manager.add_npc(npc): npcs[npc.id] = npc; a key already present keeps its place (npc.py:154-155)
AddNpc(n) ==
    /\ npc_registry' = AppendIfAbsent(npc_registry, n)
    /\ out' = <<>>
    /\ probe' = [call |-> "add_npc", npc |-> n]
    /\ UNCHANGED <<areaVars, objVars, itemVars, shopVars, playerVars, layout, detection_draw,
                   connect_calls, game_turn, running, suspicion_halves>>

\* What one pass of the loop of update_all_npcs keeps of the result u of an update
\* of n: acc holds the placement record and the cooldowns so far, the NPCs called so
\* far and the messages so far.
Collect(acc, n, u) ==
    [w |-> u.w,
     cooldown |-> [acc.cooldown EXCEPT ![n] = u.cooldown],
     called |-> Append(acc.called, n),
     messages |-> IF u.msg = None THEN acc.messages ELSE Append(acc.messages, u.msg)]

\* One pass of the loop of update_all_npcs (npc.py:170-173): n's update is called
\* with no player, its message kept when there is one.
UpdateOne(acc, n, rnds) == Collect(acc, n, update(acc.w, n, acc.cooldown[n], FALSE, rnds[n]))

\* A round that calls update a second time on every NPC it visits.
update_all_npcs_twice(w, cooldowns, registry, rnds) ==
    LET visit[k \in 0..Len(registry)] ==
            IF k = 0 THEN [w |-> w, cooldown |-> cooldowns, called |-> <<>>, messages |-> <<>>]
            ELSE UpdateOne(UpdateOne(visit[k - 1], registry[k], rnds), registry[k], rnds)
    IN visit[Len(registry)]

\* NPCManager.update_all_npcs(game_turn), no player passed (npc.py:164-174,
\* game_manager.py:265): the placement record and the cooldowns after the round,
\* the NPCs whose update was called, in call order, and the messages collected.
update_all_npcs(w, cooldowns, registry, rnds) ==
    LET visit[k \in 0..Len(registry)] ==
            IF k = 0 THEN [w |-> w, cooldown |-> cooldowns, called |-> <<>>, messages |-> <<>>]
            ELSE UpdateOne(visit[k - 1], registry[k], rnds)
    IN visit[Len(registry)]

\* The state update_world leaves: r is what update_all_npcs returned, decayed the
\* rating, in half points, after update_suspicion_decay.
TurnResult(r, decayed) ==
    /\ PutWorld(r.w)
    /\ action_cooldown' = r.cooldown
    /\ SetSuspicion(decayed)
    /\ out' = (IF decayed # SuspicionHalfPoints THEN <<"suspicion_decreased">> ELSE <<>>) \o r.messages
    /\ probe' = [call |-> "update_world", updated |-> r.called]

\* GameManager.update_world (game_manager.py:263-268); rnds[n] are the draws of n's update
UpdateWorld(rnds) ==
    /\ ~Crashed
    /\ game_turn < MaxTurns
    /\ game_turn' = game_turn + 1
    /\ TurnResult(update_all_npcs(World, action_cooldown, npc_registry, rnds),
                  update_suspicion_decay(SuspicionHalfPoints))
    /\ UNCHANGED <<area_origin_coords, connections, portals, class_name, itemVars, shopVars, inventory,
                   current_area, player_coordinates, money, layout, detection_draw, connect_calls,
                   running, npc_registry>>

\* The draws of an update the turn machine offers: no roll; a move east with the
\* shortest wait; a move west with the longest; a signature move with the longest wait.
TurnDraws ==
    {Rnd(FALSE, <<0, 0>>, MoveCooldownMin, FALSE, SignatureCooldownMin),
     Rnd(TRUE, <<1, 0>>, MoveCooldownMin, FALSE, SignatureCooldownMin),
     Rnd(TRUE, <<-1, 0>>, MoveCooldownMax, FALSE, SignatureCooldownMin),
     Rnd(FALSE, <<0, 0>>, MoveCooldownMin, TRUE, SignatureCooldownMax)}

\* NPC 101, a ParkCharacter, a ShadyCharacter or a plain NPC, stands in the Land and
\* NPC 102, a CastMember, in the Shop; the player is in the Shop, which stocks ears.
InitTurn ==
    /\ area_origin_coords = [a \in Areas |-> IF a = "land" THEN <<0, 0>>
                                             ELSE IF a = "shop" THEN <<1, 0>> ELSE <<0, 2>>]
    /\ class_name \in [NPCs -> {"NPC", "ParkCharacter", "ShadyCharacter", "CastMember"}]
    /\ class_name[101] # "CastMember"
    /\ class_name[102] = "CastMember"
    /\ action_cooldown = [n \in NPCs |-> 0]
    /\ LET w == set_location(set_location(BlankWorld, 101, "land", <<>>, <<>>),
                             102, "shop", <<0>>, <<0>>)
       IN /\ grid_objects = w.grid_objects
          /\ items = w.items
          /\ npcs = w.npcs
          /\ coordinates = w.coordinates
          /\ location = w.location
    /\ connections = BuiltConnections
    /\ portals = [a \in Areas |-> EmptyMap]
    /\ world_items = {}
    /\ item_name = [i \in ItemIds |-> None]
    /\ is_unpaid = [i \in ItemIds |-> FALSE]
    /\ unpaid_from_shop_id = [i \in ItemIds |-> None]
    /\ shop_sells_stock = [a \in Areas |->
                    IF a = "shop" THEN ("ears" :> StockEntry(2, StockQty, FALSE)) ELSE EmptyMap]
    /\ inventory = <<>>
    /\ current_area = "shop"
    /\ player_coordinates = GlobalOf(<<1, 0>>, ResolveX("shop", <<>>), ResolveY("shop", <<>>))
    /\ money = MaxMoney
    /\ suspicion_rating = 0
    /\ InitAux

NextTurn ==
    \/ \E n \in NPCs : AddNpc(n)
    \/ PickUp("ears")
    \/ \E rnds \in [NPCs -> TurnDraws] : UpdateWorld(rnds)

SpecTurn == InitTurn /\ [][NextTurn]_vars

\* ------------------------------------------------------------ C19
\* The step is a call of update_world.
UpdateWorldStep == \E rnds \in [NPCs -> TurnDraws] : UpdateWorld(rnds)

\* The number of times n occurs in the list s.
Occurrences(s, n) == Cardinality({k \in 1..Len(s) : s[k] = n})

\* C19: one call of update_world is exactly one turn: game_turn rises by one,
\* update is called exactly once on every registered NPC and on no other (a
\* waiting NPC whose update is NPC.update has waited one turn less, an
\* unregistered one is as before), and the passive decay is applied exactly once
\* (the rating is lower by 0.5, or 0 when it was below that).
C19_OneCallOneTurn ==
    [][UpdateWorldStep
       => /\ game_turn' = game_turn + 1
          /\ \A n \in NPCs :
                /\ Occurrences(probe'.updated, n) = IF InList(n, npc_registry) THEN 1 ELSE 0
                /\ (InList(n, npc_registry) /\ class_name[n] \in {"NPC", "Guest", "CastMember"}
                                             /\ action_cooldown[n] > 0)
                   => action_cooldown'[n] = action_cooldown[n] - 1
                /\ ~InList(n, npc_registry)
                   => action_cooldown'[n] = action_cooldown[n] /\ coordinates'[n] = coordinates[n]
          /\ SuspicionHalfPoints' = SuspicionHalfPoints - Min2(DecayHalfPoints, SuspicionHalfPoints)]_vars

\* A turn has passed with both NPCs registered: each was updated once, NPC 102
\* has one turn less to wait, and the rating of 5 has decayed to 4.5.
C19_Witness ==
    /\ probe.call = "update_world"
    /\ probe.updated = <<102, 101>>
    /\ game_turn = MaxTurns
    /\ action_cooldown[102] = MoveCooldownMin - 1
    /\ suspicion_rating = TakeSuspicion - 1 /\ suspicion_halves = 1

\* ------------------------------------------------------------ the suspicion machine
\* The Shop stocks ears and is staffed by NPC 101, a plain NPC or a Cast Member;
\* NPC 102, a ShadyCharacter, stands in the Bazaar, the fence's place, and is the one
\* registered NPC.  The player starts in the Land, goes from Area to Area, takes,
\* pays, sells and rides, and turns pass.
InitSuspicion ==
    /\ area_origin_coords = [a \in Areas |-> IF a = "land" THEN <<0, 0>>
                                             ELSE IF a = "shop" THEN <<1, 0>> ELSE <<0, 2>>]
    /\ class_name \in [NPCs -> {"NPC", "CastMember", "ShadyCharacter"}]
    /\ class_name[101] # "ShadyCharacter"
    /\ class_name[102] = "ShadyCharacter"
    /\ action_cooldown = [n \in NPCs |-> 0]
    /\ LET w == set_location(set_location(BlankWorld, 101, "shop", <<0>>, <<0>>),
                             102, "bazaar", <<>>, <<>>)
       IN /\ grid_objects = w.grid_objects
          /\ items = w.items
          /\ npcs = w.npcs
          /\ coordinates = w.coordinates
          /\ location = w.location
    /\ connections = BuiltConnections
    /\ portals = [a \in Areas |-> EmptyMap]
    /\ world_items = {}
    /\ item_name = [i \in ItemIds |-> None]
    /\ is_unpaid = [i \in ItemIds |-> FALSE]
    /\ unpaid_from_shop_id = [i \in ItemIds |-> None]
    /\ shop_sells_stock = [a \in Areas |->
                    IF a = "shop" THEN ("ears" :> StockEntry(2, StockQty, FALSE)) ELSE EmptyMap]
    /\ inventory = <<>>
    /\ current_area = "land"
    /\ player_coordinates = GlobalOf(<<0, 0>>, ResolveX("land", <<>>), ResolveY("land", <<>>))
    /\ money = MaxMoney
    /\ suspicion_rating = 0
    /\ InitObserve
    /\ npc_registry = <<102>>

\* The one registered NPC draws nothing: a ShadyCharacter's update makes no draw
\* when no player is passed.
NoRolls == [n \in NPCs |-> Rnd(FALSE, <<0, 0>>, MoveCooldownMin, FALSE, SignatureCooldownMin)]

NextSuspicion ==
    \/ PickUp("ears")
    \/ BuyItem("ears")
    \/ SellItem("ears")
    \/ \E reduction \in RideReductions : Ride(reduction)
    \/ \E a \in RegisteredAreas : \E draw \in DrawsOnLeaving(a) : Teleport(a, <<>>, <<>>, draw)
    \/ UpdateWorld(NoRolls)

SpecSuspicion == InitSuspicion /\ [][NextSuspicion]_vars

\* ------------------------------------------------------------ C20
\* The rating is not negative (in half points: a whole part that is not negative
\* and at most one half).
SuspicionNotNegative ==
    /\ suspicion_rating >= 0
    /\ suspicion_halves \in {0, 1}

\* C20: the passive decay of a turn lowers the player's suspicion by
\* min(0.5, current suspicion), and after any sequence of operations (decay,
\* rides, paying, fencing, taking items, theft checks) the rating is not negative.
C20_DecayAndFloor ==
    /\ []SuspicionNotNegative
    /\ [][UpdateWorld(NoRolls)
          => SuspicionHalfPoints' = SuspicionHalfPoints - Min2(DecayHalfPoints, SuspicionHalfPoints)]_vars

\* A turn's decay has just taken the last half point of the rating.
C20_Witness ==
    /\ probe.call = "update_world"
    /\ out = <<"suspicion_decreased">>
    /\ SuspicionHalfPoints = 0
    /\ world_items # {}

\* ------------------------------------------------------------ the session machine
\* The first word of a command line, lower-cased (game_manager.py:160-163): the
\* words process_command knows, and one it does not.
Words == {"n", "north", "e", "w", "enter", "look", "inventory", "get", "ride",
          "teleport", "whereami", "quit", "exit", "where", "dance"}
\* The rest of the command line, joined (game_manager.py:164-165): nothing, an item,
\* an Area, a connection label, a name nothing matches.
SessionArgs == {"", "ears", "shop", "enter shop", "nowhere"}

\* direction_map.get(action, action) (game_manager.py:168-169)
direction_map(action) ==
    CASE action = "n" -> "north"
      [] action = "s" -> "south"
      [] action = "e" -> "east"
      [] action = "w" -> "west"
      [] OTHER -> action

\* A lookup that answers with the Land when nothing matches.
get_area_guessing(name) ==
    IF name \in RegisteredAreas THEN name
    ELSE IF lower(name) \in RegisteredAreas THEN lower(name) ELSE "land"

\* area_manager.get_area(area_id_or_name) (area.py:287-294): the registered Area of
\* that id, else the one whose name matches in lower case, else None
get_area(name) ==
    IF name \in RegisteredAreas THEN name
    ELSE IF lower(name) \in RegisteredAreas THEN lower(name) ELSE None

\* A branch of process_command that only prints, and what it leaves of the running flag.
Reply(event, still_running) ==
    /\ out' = <<event>>
    /\ running' = still_running
    /\ UNCHANGED <<areaVars, objVars, itemVars, shopVars, playerVars, layout, detection_draw,
                   connect_calls, game_turn, npc_registry, suspicion_halves, probe>>

\* GameManager.process_command(command_input) (game_manager.py:159-261), called by
\* the loop of run while the flag is up (game_manager.py:278, 299).
ProcessCommand(action, args) ==
    /\ running
    /\ ~Crashed
    /\ IF action \in {"n", "north", "s", "south", "e", "east", "w", "west"}
       THEN \E draw \in DrawsOnLeaving(MoveTarget(direction_map(action))) :
               Move(direction_map(action), draw)
       ELSE IF action = "enter" /\ args # ""
       THEN IF current_area # None /\ args \in DOMAIN connections[current_area]
            THEN \E draw \in DrawsOnLeaving(MoveTarget(args)) : Move(args, draw)
            ELSE Reply("cannot_enter", running)
       ELSE IF action \in {"look", "l"} THEN Reply("look", running)
       ELSE IF action \in {"inventory", "i", "bag"} THEN Reply("inventory", running)
       ELSE IF action \in {"get", "take", "pickup"}
       THEN IF args # "" THEN PickUp(args) ELSE Reply("pickup_what", running)
       ELSE IF action = "ride" THEN Reply("not_in_ride", running)
       ELSE IF action \in {"teleport", "tp"}
       THEN IF args = "" THEN Reply("teleport_where", running)
            ELSE \E draw \in DrawsOnLeaving(get_area(args)) : Teleport(get_area(args), <<>>, <<>>, draw)
       ELSE IF action = "whereami" THEN Reply("whereami", running)
       ELSE IF action \in {"quit", "exit"} THEN Reply("quit", FALSE)
       ELSE IF action = "where"
       THEN IF args = "" THEN Reply("where_what", running)
            ELSE Reply(IF get_area(args) = None THEN "no_place_matching" ELSE "locations_matching",
                       FALSE)
       ELSE Reply("not_understood", running)

\* The empty input line of run: the turn passes while the flag is up (game_manager.py:303-304).
PassTurn ==
    /\ running
    /\ UpdateWorld(NoRolls)

InitSession == InitWalk

NextSession ==
    \/ \E action \in Words, args \in SessionArgs : ProcessCommand(action, args)
    \/ PassTurn

SpecSession == InitSession /\ [][NextSession]_vars

\* ------------------------------------------------------------ C21
\* C21: only an explicit quit command ends the session: after processing any
\* command other than quit or exit (failed, unknown and informational commands such
\* as where included) the running flag is still true.
C21_OnlyQuitEnds ==
    [][\A action \in Words \ {"quit", "exit"}, args \in SessionArgs :
          ProcessCommand(action, args) => running']_vars

\* ------------------------------------------------------------ the fence machine
\* The cuts a FenceShop may be built with, in hundredths (fence_cut, area.py:478-480).
CutPercents == 0..100

\* FenceShop(..., fence_cut = cut_percent / 100).get_fence_price(item_value), called
\* directly; the probe keeps the arguments and the price returned.
GetFencePrice(value, cut_percent) ==
    /\ probe' = [call |-> "get_fence_price", value |-> value, cut |-> cut_percent,
                 price |-> fence_price(value, cut_percent)]
    /\ out' = <<>>
    /\ UNCHANGED <<areaVars, objVars, itemVars, shopVars, playerVars, layout, detection_draw,
                   connect_calls, turnVars>>

\* The world the fence is asked in: that of the walk, no staff in it.
InitFence ==
    /\ InitWalk
    /\ class_name[101] = "NPC"

NextFence ==
    \E value \in 0..MaxItemValue, cut_percent \in CutPercents : GetFencePrice(value, cut_percent)

SpecFence == InitFence /\ [][NextFence]_vars

\* ------------------------------------------------------------ C22
\* C22: the fence price of an item is round(value * fenceCut), the integer nearest
\* to the product (at a tie either neighbour is nearest), for every item value and
\* cut; a fence with fenceCut = 0.25 prices an item of value 20 at 5.
C22_FencePriceIsRounded ==
    probe.call = "get_fence_price"
    => /\ probe.price \in Nat
       /\ 100 * probe.price - probe.value * probe.cut \in (0 - 50)..50
       /\ (probe.value = 20 /\ probe.cut = 25) => probe.price = 5

\* The scenario: a fence with a cut of 0.25 has priced an item of value 20.
C22_Witness ==
    /\ probe.call = "get_fence_price"
    /\ probe.value = 20
    /\ probe.cut = 25
    /\ probe.price = 5

\* ------------------------------------------------------------ C23
\* C23: during a turn advanced by the turn engine, a registered NPC that
\* successfully moves while the player occupies the same Area within distance 10
\* produces a movement message, and that message is among the messages the turn
\* engine collects for the turn.
C23_MoveMessageCollected ==
    [][\A n \in NPCs :
          (/\ UpdateWorldStep
           /\ InList(n, npc_registry)
           /\ coordinates'[n] # coordinates[n]
           /\ current_area = location'[n]
           /\ WithinDistance(coordinates'[n], player_coordinates, VisibleRadius))
          => InList("moves", out')]_vars

\* ------------------------------------------------------------ the machine of the wide Area
\* The Promenade is wider than the visibility radius. NPC 101, of any class, stands at
\* its east edge and is updated, with the player passed or not; the player is in
\* the Land, or teleports to the Promenade's west edge, to a column beyond the
\* greeting radius, to the centre or to the east edge.
InitScript ==
    /\ area_origin_coords = [a \in Areas |-> IF a = "land" THEN <<0, 0>>
                                             ELSE IF a = "shop" THEN <<1, 0>>
                                             ELSE IF a = "promenade" THEN <<0, 3>> ELSE <<0, 2>>]
    /\ class_name \in [NPCs -> ClassNames]
    /\ class_name[102] = "NPC"
    /\ action_cooldown = [n \in NPCs |-> 0]
    /\ LET w == set_location(set_location(BlankWorld, 101, "promenade", <<grid_width("promenade")>>, <<>>),
                             102, "shop", <<0>>, <<0>>)
       IN /\ grid_objects = w.grid_objects
          /\ items = w.items
          /\ npcs = w.npcs
          /\ coordinates = w.coordinates
          /\ location = w.location
    /\ connections = NoConnections
    /\ portals = [a \in Areas |-> EmptyMap]
    /\ world_items = {}
    /\ item_name = [i \in ItemIds |-> None]
    /\ is_unpaid = [i \in ItemIds |-> FALSE]
    /\ unpaid_from_shop_id = [i \in ItemIds |-> None]
    /\ shop_sells_stock = [a \in Areas |-> EmptyMap]
    /\ inventory = <<>>
    /\ current_area = "land"
    /\ player_coordinates = GlobalOf(<<0, 0>>, ResolveX("land", <<>>), ResolveY("land", <<>>))
    /\ money = MaxMoney
    /\ suspicion_rating = 0
    /\ InitAux

\* The draws offered to an update in the wide Area: a step along the row or none,
\* and the shortest waits.
ScriptDraws(n) ==
    {r \in RndFor(n) : /\ r.choice[2] = 0
                       /\ r.cooldown = MoveCooldownMin
                       /\ r.second_cooldown = SignatureCooldownMin}

NextScript ==
    \/ \E has_player \in BOOLEAN, rnd \in ScriptDraws(101) : ObservedUpdate(101, has_player, rnd)
    \/ \E a \in {"land", "promenade"}, x \in {<<0>>, <<GreetingRadius - 1>>, <<>>, <<grid_width("promenade")>>} :
          Teleport(a, x, <<>>, NoDraw)

SpecScript == InitScript /\ [][NextScript]_vars

\* ------------------------------------------------------------ C24
\* The step is an update of the scripted character n whose signature roll succeeds:
\* the cooldown is 0, the move roll fails (so there is no movement message) and the
\* 0.2 roll passes.
SignatureRollStep(n) ==
    /\ out' # <<>>
    /\ out'[1] = UpdateTag(n)
    /\ probe'.call = "update"
    /\ probe'.npc = n
    /\ class_name[n] = "ParkCharacter"
    /\ action_cooldown[n] = 0
    /\ ~probe'.move_roll
    /\ probe'.second_roll

\* C24: whenever a scripted character's signature roll succeeds (no movement
\* message this turn, cooldown 0, the 0.2 roll passes), its cooldown is reset to an
\* integer in 3..6 regardless of visibility: no player supplied, the player in
\* another Area, in the same Area beyond distance 10, or within distance 10.
C24_SignatureResetsCooldown ==
    [][\A n \in NPCs :
          SignatureRollStep(n)
          => action_cooldown'[n] \in SignatureCooldownMin..SignatureCooldownMax]_vars

\* ------------------------------------------------------------ C25
\* The square of the distance between two coordinates.
SquaredDistance(c1, c2) ==
    (c1[1] - c2[1]) * (c1[1] - c2[1]) + (c1[2] - c2[2]) * (c1[2] - c2[2])

\* C25: no NPC update of any variant returns a message unless a player reference
\* is supplied and the player is in the same Area as the NPC (where the update
\* leaves it) within the variant's radius: distance <= 10 for movement and
\* signature-phrase messages, distance <= 5 for the informant's greeting.
C25_NoMessageOutOfSight ==
    (/\ probe.call = "update"
     /\ Len(out) = 2
     /\ out[1] = UpdateTag(probe.npc))
    => /\ probe.has_player
       /\ current_area = location[probe.npc]
       /\ SquaredDistance(coordinates[probe.npc], player_coordinates)
             <= (IF out[2] = "greeting" THEN 5 * 5 ELSE 10 * 10)

\* An update has returned a movement message with the player at distance 10.
C25_Witness ==
    /\ probe.call = "update"
    /\ out = <<UpdateTag(101), "moves">>
    /\ SquaredDistance(coordinates[101], player_coordinates) = 10 * 10

\* ------------------------------------------------------------ C26
\* The step is an update of the informant n.
InformantUpdateStep(n) ==
    /\ class_name[n] = "ShadyCharacter"
    /\ out' # <<>>
    /\ out'[1] = UpdateTag(n)
    /\ probe'.call = "update"
    /\ probe'.npc = n

\* C26: the stationary informant (ShadyCharacter) never wanders: every update, and
\* so any number of them, leaves its Area, its grid cell, its stored coordinates
\* and its cooldown unchanged.
C26_InformantNeverWanders ==
    [][\A n \in NPCs :
          InformantUpdateStep(n)
          => /\ location'[n] = location[n]
             /\ coordinates'[n] = coordinates[n]
             /\ \A a \in Areas : CellsOf(grid_objects'[a], n) = CellsOf(grid_objects[a], n)
             /\ npcs' = npcs
             /\ action_cooldown'[n] = action_cooldown[n]]_vars

\* The informant has been updated with the player at hand and has greeted; it is
\* where it was placed.
C26_Witness ==
    /\ class_name[101] = "ShadyCharacter"
    /\ probe.call = "update"
    /\ out = <<UpdateTag(101), "greeting">>
    /\ CellsOf(grid_objects["promenade"], 101) = {<<grid_width("promenade") - 1, GridL \div 2>>}

\* ------------------------------------------------------------ C27
\* shop_left.get_relative_coordinates(self.coordinates) of check_for_theft
\* (player.py:405), for the coordinates the player has when the check runs; the
\* statement is reached only with Cast Members found in shop_left.npcs
\* (player.py:398-403), NoCoords when it is not.
player_position_at_check(shop_left, coords) ==
    IF SelectCastMembers(npcs[shop_left]) = <<>> THEN NoCoords
    ELSE get_relative_coordinates(shop_left, coords)

\* C27: in the theft check, the player position used to compute each staff
\* member's detection distance is the local cell the player occupied inside the
\* shop at the moment of leaving (the exit cell), not the arrival cell in the
\* destination Area.  (set_current_area assigns the arrival coordinates before it
\* calls check_for_theft, player.py:31-37, so the check reads those the step leaves.)
C27_DistanceFromExitCell ==
    [][(/\ LeavesShopStep
        /\ SelectUnpaid(inventory, current_area) # <<>>
        /\ \E n \in NPCs : StaffPlacedIn(current_area, n))
       => LET used == player_position_at_check(current_area, player_coordinates')
          IN /\ used # NoCoords
             /\ used[1] = PlayerGridPosition[1]
             /\ used[2] = PlayerGridPosition[2]]_vars

C29_OutOfBoundsPlacementIsNoOp ==
    [][\A obj \in PlaceObjs, c \in PlaceCells :
          (AddObject("land", obj, c[1], c[2]) /\ ~(c[1] \in 0..(GridW - 1) /\ c[2] \in 0..(GridL - 1)))
          => /\ grid_objects' = grid_objects
             /\ items' = items
             /\ npcs' = npcs
             /\ coordinates' = coordinates
             /\ location' = location]_vars

\* NPC 101, standing in the Land, has just been refused a cell outside its grid.
C29_Witness ==
    /\ probe.call = "placed"
    /\ probe.obj = 101
    /\ probe.cell \in {<<GridW, 0>>, <<0 - 1, 0>>, <<0, GridL>>}
    /\ out = <<"out_of_bounds">>
    /\ CellsOf(grid_objects["land"], 101) # {}
    /\ location[101] = "land"

\* ------------------------------------------------------------ C30
\* C30: a player directional step whose destination cell is in bounds always keeps
\* the player in the same Area (unless that cell holds a portal), at that cell,
\* even when the Area has a connection labelled with that direction; the
\* connection is taken only when the step would leave the grid.
C30_InBoundsStepStaysInArea ==
    [][\A d \in Directions :
          (/\ MoveStep(d)
           /\ StepCell(d)[1] \in 0..(grid_width(current_area) - 1)
           /\ StepCell(d)[2] \in 0..(grid_length(current_area) - 1)
           /\ StepCell(d) \notin DOMAIN portals[current_area])
          => /\ current_area' = current_area
             /\ player_coordinates' = <<area_origin_coords[current_area][1] + StepCell(d)[1],
                                        area_origin_coords[current_area][2] + StepCell(d)[2]>>]_vars

\* The player has stepped east inside the Shop, which has a connection labelled
\* east, and is still in the Shop.
C30_Witness ==
    /\ out = <<"you_move">>
    /\ PlayerAt("shop", <<1, 0>>)
    /\ "east" \in DOMAIN connections["shop"]
    /\ <<1, 0>> \notin DOMAIN portals["shop"]

\* ------------------------------------------------------------ the manager's machine
\* The identifiers connect_areas is called with: ids of registered Areas, a name
\* in another letter case, and one that nothing is registered under.
AreaIds == {"land", "shop", "Shop", "nowhere"}
ManagerLabels == {"North", "enter shop"}

\* AreaManager.connect_areas(area1_id, direction, area2_id) (area.py:312-320); the
\* value returned is logged.
ConnectAreas(area1_id, direction, area2_id) ==
    /\ connect_calls < MaxConnectCalls
    /\ connect_calls' = connect_calls + 1
    /\ IF get_area(area1_id) # None /\ get_area(area2_id) # None
       THEN /\ connections' = add_connection(connections, get_area(area1_id), direction,
                                             get_area(area2_id))
            /\ out' = <<"True">>
       ELSE /\ connections' = connections
            /\ out' = <<"False">>
    /\ probe' = [call |-> "connect_areas", area1_id |-> area1_id, direction |-> direction,
                 area2_id |-> area2_id]
    /\ UNCHANGED <<area_origin_coords, grid_objects, items, npcs, portals, objVars, itemVars,
                   shopVars, playerVars, layout, detection_draw, turnVars>>

InitManager == InitConn

NextManager ==
    \E area1_id \in AreaIds, d \in ManagerLabels, area2_id \in AreaIds : ConnectAreas(area1_id, d, area2_id)

SpecManager == InitManager /\ [][NextManager]_vars

\* ------------------------------------------------------------ C31
\* The registered Area an identifier resolves to, by id or by name in any letter case.
ResolvesTo(id) == IF id = "Shop" THEN "shop" ELSE id

\* C31: connect_areas returns failure when either identifier does not resolve to
\* a registered area, and in that case no area's connections map is changed; when
\* both resolve it returns success and the connection is stored (under the
\* lower-cased label).
C31_ConnectAreas ==
    [][\A area1_id \in AreaIds, d \in ManagerLabels, area2_id \in AreaIds :
          ConnectAreas(area1_id, d, area2_id)
          => IF area1_id # "nowhere" /\ area2_id # "nowhere"
             THEN /\ out' = <<"True">>
                  /\ (IF d = "North" THEN "north" ELSE d) \in DOMAIN connections'[ResolvesTo(area1_id)]
                  /\ connections'[ResolvesTo(area1_id)][IF d = "North" THEN "north" ELSE d]
                        = ResolvesTo(area2_id)
             ELSE /\ out' = <<"False">>
                  /\ connections' = connections]_vars

\* connect_areas has just failed on an unregistered second identifier, with a
\* connection stored before it still in place.
C31_Witness ==
    /\ probe.call = "connect_areas"
    /\ probe.area1_id = "land"
    /\ probe.area2_id = "nowhere"
    /\ out = <<"False">>
    /\ connections["land"] # EmptyMap

\* ------------------------------------------------------------ the trading machine
\* Shop.add_item_to_buy_stock(item_name, buy_price, desired_stock) (area.py:429-435):
\* the entry is written anew, with nothing bought yet.
AddItemToBuyStock(a, name, buy_price, desired_stock) ==
    /\ is_shop(a)
    /\ shop_buys_stock' = [shop_buys_stock EXCEPT ![a] =
                              MapPut(@, name, [buy_price |-> buy_price, current_stock |-> 0,
                                               desired_stock |-> desired_stock])]
    /\ out' = <<>>
    /\ UNCHANGED <<areaVars, objVars, itemVars, shop_sells_stock, playerVars, layout,
                   detection_draw, connect_calls, turnVars, probe>>

\* The Shop sells maps and, once add_item_to_buy_stock has said so, buys them
\* back; the Bazaar is the fence's place; one map lies loose in the Land at the
\* cell the player starts on (game_manager.py:131-133), and nobody is placed
\* anywhere.  The player, built with start_money 1 or MaxMoney, goes from Area to
\* Area, picks up and takes, drops, buys, pays and sells.
InitTrade ==
    /\ area_origin_coords = [a \in Areas |-> IF a = "land" THEN <<0, 0>>
                                             ELSE IF a = "shop" THEN <<1, 0>> ELSE <<0, 2>>]
    /\ class_name = [n \in NPCs |-> "NPC"]
    /\ action_cooldown = [n \in NPCs |-> 0]
    /\ LET w == add_object_to_grid(BlankWorld, "land", 1, ResolveX("land", <<>>),
                                   ResolveY("land", <<>>))
       IN /\ grid_objects = w.grid_objects
          /\ items = w.items
          /\ npcs = w.npcs
          /\ coordinates = w.coordinates
          /\ location = w.location
    /\ connections = BuiltConnections
    /\ portals = [a \in Areas |-> EmptyMap]
    /\ world_items = {1}
    /\ item_name = [i \in ItemIds |-> IF i = 1 THEN "map" ELSE None]
    /\ is_unpaid = [i \in ItemIds |-> FALSE]
    /\ unpaid_from_shop_id = [i \in ItemIds |-> None]
    /\ shop_sells_stock = [a \in Areas |->
                    IF a = "shop" THEN ("map" :> StockEntry(2, StockQty, FALSE)) ELSE EmptyMap]
    /\ inventory = <<>>
    /\ current_area = "land"
    /\ player_coordinates = GlobalOf(<<0, 0>>, ResolveX("land", <<>>), ResolveY("land", <<>>))
    /\ money \in {1, MaxMoney}
    /\ suspicion_rating = 0
    /\ InitAux

\* The numbers of maps the Shop may be told to want, once, as the game's set-up
\* does (game_manager.py:81).
DesiredStocks == {0, StockQty}

NextTrade ==
    \/ /\ shop_buys_stock["shop"] = EmptyMap
       /\ \E desired_stock \in DesiredStocks : AddItemToBuyStock("shop", "map", 1, desired_stock)
    \/ PickUp("map")
    \/ BuyItem("map")
    \/ SellItem("map")
    \/ Drop("map")
    \/ \E a \in RegisteredAreas : \E draw \in DrawsOnLeaving(a) : Teleport(a, <<>>, <<>>, draw)

SpecTrade == InitTrade /\ [][NextTrade]_vars

\* ------------------------------------------------------------ C32
\* In every Shop, no more of an item have been bought than are wanted.
BoughtWithinDesired ==
    \A a \in Areas : \A name \in DOMAIN shop_buys_stock[a] :
        shop_buys_stock[a][name].current_stock <= shop_buys_stock[a][name].desired_stock

\* C32: a regular shop accepts the sale of a paid item only if it solicits that
\* item key and has bought fewer than it wants; each accepted sale raises the
\* count bought by exactly one and credits the buy price, so the count bought
\* never exceeds the number wanted.
C32_SaleWithinDesiredStock ==
    /\ []BoughtWithinDesired
    /\ [][SellItem("map") /\ out' = <<"sold">> /\ current_area = "shop"
          => /\ "map" \in DOMAIN shop_buys_stock["shop"]
             /\ shop_buys_stock["shop"]["map"].current_stock
                   < shop_buys_stock["shop"]["map"].desired_stock
             /\ shop_buys_stock'["shop"]["map"].current_stock
                   = shop_buys_stock["shop"]["map"].current_stock + 1
             /\ shop_buys_stock'["shop"]["map"].desired_stock
                   = shop_buys_stock["shop"]["map"].desired_stock
             /\ money' = money + shop_buys_stock["shop"]["map"].buy_price
             /\ Len(inventory') = Len(inventory) - 1]_vars

\* The Shop wanted one map and has bought it, and has just turned down a second
\* paid map.
C32_Witness ==
    /\ current_area = "shop"
    /\ out = <<"has_enough">>
    /\ "map" \in DOMAIN shop_buys_stock["shop"]
    /\ shop_buys_stock["shop"]["map"].current_stock = 1
    /\ shop_buys_stock["shop"]["map"].desired_stock = 1
    /\ inventory # <<>>

\* ------------------------------------------------------------ C33
\* C33: at a fence, selling a held item succeeds if and only if the item is
\* flagged unpaid; on success the item leaves the inventory, money grows by the
\* fence price of its value (the value times the cut, rounded), and its unpaid
\* flag and origin shop are cleared; for a paid item the inventory, the money and
\* the suspicion rating are unchanged.
C33_FenceTakesOnlyUnpaid ==
    [][(SellItem("ears") /\ current_area = "bazaar" /\ FirstNamed(inventory, "ears") # 0)
       => LET held == FirstNamed(inventory, "ears")
          IN IF is_unpaid[held]
             THEN /\ out' = <<"fenced">>
                  /\ inventory' = ListRemove(inventory, held)
                  /\ ~InList(held, inventory')
                  /\ money' = money + RoundHalfEven(15 * FenceCutPercent, 100)
                  /\ ~is_unpaid'[held]
                  /\ unpaid_from_shop_id'[held] = None
             ELSE /\ out' # <<"fenced">>
                  /\ inventory' = inventory
                  /\ money' = money
                  /\ suspicion_rating' = suspicion_rating
                  /\ suspicion_halves' = suspicion_halves
                  /\ is_unpaid' = is_unpaid]_vars

\* The fence has just bought the ears the player took from the Shop's stock.
C33_Witness ==
    /\ current_area = "bazaar"
    /\ out = <<"fenced">>
    /\ money = MaxMoney + 4
    /\ \E i \in world_items : ~InList(i, inventory) /\ ~is_unpaid[i]

\* ------------------------------------------------------------ C34
\* C34: pick_up of a stocked item requires the shop's remaining stock of it to be
\* above 0, adds a new instance to the inventory flagged unpaid with that shop's
\* id, and leaves the shop's remaining stock unchanged.
C34_TakeLeavesStock ==
    [][\A name \in Names :
          (PickUp(name) /\ out' = <<"take">>)
          => /\ is_shop(current_area)
             /\ name \in DOMAIN shop_sells_stock[current_area]
             /\ \/ shop_sells_stock[current_area][name].unbounded
                \/ shop_sells_stock[current_area][name].stock > 0
             /\ \E i \in world_items' \ world_items :
                   /\ inventory' = Append(inventory, i)
                   /\ item_name'[i] = name
                   /\ is_unpaid'[i]
                   /\ unpaid_from_shop_id'[i] = current_area
             /\ shop_sells_stock' = shop_sells_stock]_vars

\* Ears have just been taken from the Shop's shelf, and the Shop still counts
\* its whole stock.
C34_Witness ==
    /\ out = <<"take">>
    /\ current_area = "shop"
    /\ shop_sells_stock["shop"]["ears"].stock = StockQty
    /\ \E k \in 1..Len(inventory) :
          /\ item_name[inventory[k]] = "ears"
          /\ is_unpaid[inventory[k]]
          /\ unpaid_from_shop_id[inventory[k]] = "shop"

\* ------------------------------------------------------------ the travelling machine
\* player.teleport(target_area, grid_x, grid_y) (player.py:193-198), the arguments
\* kept in the probe.
ObservedTeleport(area, grid_x, grid_y) ==
    /\ ~Crashed
    /\ \E draw \in DrawsOnLeaving(area) :
          /\ LET p == IF area = None THEN [PlayerRec EXCEPT !.out = <<"teleport_target_not_found">>]
                      ELSE set_current_area(PlayerRec, area, grid_x, grid_y, draw)
             IN /\ p.suspicion_rating <= MaxSuspicion
                /\ PutPlayer(p)
          /\ detection_draw' = IF area # None /\ LeavingShop(current_area, area)
                               THEN draw ELSE detection_draw
    /\ probe' = [call |-> "teleport", area |-> area, grid_x |-> grid_x, grid_y |-> grid_y]
    /\ UNCHANGED <<areaVars, objVars, itemVars, shopVars, money, layout, connect_calls, turnVars>>

\* The world of the walk, with its connections and portals and no staff: the
\* player steps in every direction and by every label, and teleports to every
\* Area and to none, to cells inside and outside the grid.
InitTravel ==
    /\ InitWalk
    /\ class_name[101] = "NPC"

NextTravel ==
    \/ \E d \in Labels : MoveStep(d)
    \/ \E a \in RegisteredAreas \cup {None}, x \in OptArgsX, y \in OptArgsY : ObservedTeleport(a, x, y)

SpecTravel == InitTravel /\ [][NextTravel]_vars

\* ------------------------------------------------------------ C35
\* C35: after any sequence of player moves, connection and portal transitions,
\* teleports (also to target cells out of range) and rejected moves, the player's
\* local cell in the current Area is a valid cell of it: 0 <= gx < width and
\* 0 <= gy < length.
C35_PlayerCellValid ==
    current_area # None
    => /\ player_coordinates[1] - area_origin_coords[current_area][1] >= 0
       /\ player_coordinates[1] - area_origin_coords[current_area][1] < grid_width(current_area)
       /\ player_coordinates[2] - area_origin_coords[current_area][2] >= 0
       /\ player_coordinates[2] - area_origin_coords[current_area][2] < grid_length(current_area)

\* The player has just been teleported into the Shop, to a column east of its
\* grid and a row south of it, and stands at the south end of the last column.
C35_Witness ==
    /\ probe.call = "teleport"
    /\ probe.area = "shop"
    /\ probe.grid_x = <<GridW>>
    /\ probe.grid_y = <<0 - 1>>
    /\ InList("now_in", out)
    /\ current_area = "shop"
    /\ player_coordinates = <<area_origin_coords["shop"][1] + GridW - 1, area_origin_coords["shop"][2]>>

\* ------------------------------------------------------------ C36
\* NPC n stands in Area a: a is its location, its coordinates name a cell of a's
\* grid, that cell lists it, and no other Area's grid does.
StandsIn(n, a) ==
    /\ location[n] = a
    /\ coordinates[n][1] - area_origin_coords[a][1] \in 0..(grid_width(a) - 1)
    /\ coordinates[n][2] - area_origin_coords[a][2] \in 0..(grid_length(a) - 1)
    /\ InList(n, ObjectsAt(grid_objects[a], <<coordinates[n][1] - area_origin_coords[a][1],
                                              coordinates[n][2] - area_origin_coords[a][2]>>))
    /\ \A b \in Areas \ {a} : CellsOf(grid_objects[b], n) = {}

\* C36: after any number of turn updates, every wandering NPC is still in the
\* Area where it was placed (101 in the Land, 102 in the Shop) and its local cell
\* is a valid cell of that Area; an update never moves an NPC between Areas or off
\* the grid.
C36_NpcStaysInItsArea ==
    /\ [](StandsIn(101, "land") /\ StandsIn(102, "shop"))
    /\ [][UpdateWorldStep => location' = location]_vars

\* Three turns have passed, both NPCs registered, and each has wandered from the
\* cell it was placed in to the west end of its Area's row or back.
C36_Witness ==
    /\ game_turn = MaxTurns
    /\ InList(101, npc_registry) /\ InList(102, npc_registry)
    /\ coordinates[101] = area_origin_coords["land"]
    /\ coordinates[102] = <<area_origin_coords["shop"][1] + 1, area_origin_coords["shop"][2]>>
    /\ action_cooldown[101] > 0

\* ------------------------------------------------------------ C37
\* C37: after any sequence of pick-up, drop, buy, sell, fence and confiscation
\* operations, no item is at once in the player's inventory and placed in an Area
\* (in its items or its grid_objects), and every item in the inventory has no
\* stored coordinates.
C37_HeldItemsAreNowhere ==
    \A i \in ItemIds :
        InList(i, inventory)
        => /\ coordinates[i] = NoCoords
           /\ \A a \in Areas : ~InList(i, items[a]) /\ CellsOf(grid_objects[a], i) = {}

\* The player has just picked a map up from the floor of the Shop while another
\* map, dropped earlier, lies in an Area.
C37_Witness ==
    /\ out = <<"got">>
    /\ current_area = "shop"
    /\ inventory # <<>>
    /\ \E j \in world_items, a \in Areas :
          /\ ~InList(j, inventory)
          /\ InList(j, items[a])
          /\ coordinates[j] # NoCoords

\* ------------------------------------------------------------ the purchasing machine
\* The Shop stocks ears and pins. The pin was handed to add_item_to_sell_stock
\* (area.py:421-427) without add_prototype, so create_instance has no prototype
\* of that name (item.py:72-78). The player starts in the Land with money for
\* one pair of ears, walks in and out, takes from the shelf and buys.
InitPurchase ==
    /\ area_origin_coords = [a \in Areas |-> IF a = "land" THEN <<0, 0>>
                                             ELSE IF a = "shop" THEN <<1, 0>> ELSE <<0, 2>>]
    /\ class_name = [n \in NPCs |-> "NPC"]
    /\ action_cooldown = [n \in NPCs |-> 0]
    /\ grid_objects = BlankWorld.grid_objects
    /\ items = BlankWorld.items
    /\ npcs = BlankWorld.npcs
    /\ coordinates = BlankWorld.coordinates
    /\ location = BlankWorld.location
    /\ connections = BuiltConnections
    /\ portals = [a \in Areas |-> EmptyMap]
    /\ world_items = {}
    /\ item_name = [i \in ItemIds |-> None]
    /\ is_unpaid = [i \in ItemIds |-> FALSE]
    /\ unpaid_from_shop_id = [i \in ItemIds |-> None]
    /\ shop_sells_stock = [a \in Areas |->
                    IF a = "shop" THEN ("ears" :> StockEntry(2, StockQty, FALSE))
                                       @@ ("pin" :> StockEntry(1, StockQty, FALSE))
                    ELSE EmptyMap]
    /\ inventory = <<>>
    /\ current_area = "land"
    /\ player_coordinates = GlobalOf(<<0, 0>>, ResolveX("land", <<>>), ResolveY("land", <<>>))
    /\ money = MaxMoney
    /\ suspicion_rating = 0
    /\ InitAux

\* What the player asks for: ears, pins, and maps, which the Shop does not list.
PurchaseNames == {"ears", "pin", "map"}

NextPurchase ==
    \/ \E name \in PurchaseNames : BuyItem(name)
    \/ \E name \in PurchaseNames : PickUp(name)
    \/ \E a \in RegisteredAreas : \E draw \in DrawsOnLeaving(a) : Teleport(a, <<>>, <<>>, draw)

SpecPurchase == InitPurchase /\ [][NextPurchase]_vars

\* ------------------------------------------------------------ C38
\* C38: a purchase whose outcome is not success (not_found, out_of_stock,
\* cannot_afford, creation_failed) leaves the shop's stock, the player's money
\* and the inventory unchanged.
C38_FailedPurchaseChangesNothing ==
    [][\A name \in PurchaseNames :
          (/\ BuyItem(name)
           /\ out'[1] \in {"not_found", "out_of_stock", "cannot_afford", "creation_failed"})
          => /\ shop_sells_stock' = shop_sells_stock
             /\ money' = money
             /\ inventory' = inventory]_vars

\* ------------------------------------------------------------ C39
\* C39: starting with money and prices that are not negative, after any sequence
\* of purchases, payments for taken items, sales to a shop and sales to a fence,
\* the player's money is never negative.
C39_MoneyNeverNegative == money >= 0

\* A purchase has just been refused for lack of money, after the player sold a
\* map to the Shop and bought one.
C39_Witness ==
    /\ out = <<"cannot_afford", "map">>
    /\ current_area = "shop"
    /\ money = 0
    /\ "map" \in DOMAIN shop_buys_stock["shop"]
    /\ shop_buys_stock["shop"]["map"].current_stock > 0
    /\ inventory # <<>>

\* ------------------------------------------------------------ C40
\* The number of held items that are unpaid and were taken from the shop.
UnpaidHeldFrom(shop) ==
    Cardinality({k \in 1..Len(inventory) :
                    is_unpaid[inventory[k]] /\ unpaid_from_shop_id[inventory[k]] = shop})

\* C40: when the player has taken an item from a shop's stock and then pays for
\* it in that shop with enough money, the item is no longer unpaid (nor tied to
\* the shop) and the money drops by the shop's price; a paid item never becomes
\* unpaid again; and a later exit from that shop, to any destination, takes
\* nothing from the inventory and raises the suspicion on account of the items
\* still unpaid from that shop only, so not at all when there are none.
C40_PaidItemLeavesFreely ==
    [][/\ \A name \in Names :
             (BuyItem(name) /\ out' = <<"paid">>)
             => LET held == FirstUnpaidNamed(inventory, name, current_area)
                IN /\ held # 0
                   /\ is_unpaid[held] /\ ~is_unpaid'[held]
                   /\ unpaid_from_shop_id'[held] = None
                   /\ money >= shop_sells_stock[current_area][name].price
                   /\ money' = money - shop_sells_stock[current_area][name].price
                   /\ inventory' = inventory
       /\ \A i \in world_items : ~is_unpaid[i] => ~is_unpaid'[i]
       /\ (current_area # None /\ is_shop(current_area) /\ current_area' # current_area)
             => /\ inventory' = inventory
                /\ suspicion_rating' \in {suspicion_rating,
                                          suspicion_rating + 10 * UnpaidHeldFrom(current_area)}]_vars

\* The player took ears from the Shop's shelf, paid for them there, and has
\* just walked into the Bazaar with them: the Shop still counts its whole stock,
\* the price is gone from the money, and the rating is where it started.
C40_Witness ==
    /\ current_area = "bazaar"
    /\ InList("now_in", out)
    /\ Len(inventory) = 1
    /\ item_name[inventory[1]] = "ears"
    /\ ~is_unpaid[inventory[1]]
    /\ shop_sells_stock["shop"]["ears"].stock = StockQty
    /\ money = MaxMoney - shop_sells_stock["shop"]["ears"].price
    /\ suspicion_rating = 0

====
